---- MODULE Spec2Model ----
(***************************************************************************)
(* Media retention engine of the homeserver (service/media/retention.rs    *)
(* and the facade in service/media/mod.rs).                                *)
(*                                                                         *)
(* The state is the `media_retention` column family (one key/value map     *)
(* with the key prefixes mref:, mer:, qdel:, prefs:), the media directory, *)
(* the timeline's event JSON, the notices sent to the user rooms, the wall *)
(* clock and the redaction tasks in flight.  The users' account data is    *)
(* held by another service and is an input of the step that reads it.      *)
(*                                                                         *)
(* MediaRef.first_seen_ts / last_seen_ts are write-only in the code (no    *)
(* operation reads them) and are left out of the MediaRef value.           *)
(***************************************************************************)
EXTENDS Integers, Sequences, FiniteSets, TLC

\* ---------------------------------------------------------------- bounds
MaxTime == 1
LongGrace == 1
MaxNotices == 1
MaxConsumes == 2

\* milliseconds between the stamping of an event and its consume_pending_uploads
MaxLag == 1
MaxItem == 3
MaxItemsLen == 2
MaxInputs == 3
MaxStreamLen == 3

\* ------------------------------------------------------------- universes
Mxcs == {"mxc://srv/A", "mxc://other/B"}
Events == {"$E1", "$E2", "$E3"}
KindSeq == <<"content.url", "encrypted.media", "thumbnail_url">>
Users == {"@alice:srv", "@bob:other"}
Procs == {1, 2}
ConfigStrings ==
    {"keep", "ask_sender", "delete_always", "delete_if_unreferenced",
     "force_delete_local", ""}
AccountModes == {"absent", "delete", "keep"}
PolicyNames == {"Keep", "AskSender", "DeleteAlways"}
Emojis == {"confirm", "cancel", "auto"}
NoUser == "none"
NoEvent == 0

\* --------------------------------------------------------------- helpers
Max(a, b) == IF a >= b THEN a ELSE b

\* globals.user_is_local: the server name of the user id is ours
user_is_local(u) == u \in {"@alice:srv", "@carol:srv"}

\* the `local` flag the event pipeline passes for a media identifier
mxc_is_local(m) == m = "mxc://srv/A"

\* ------------------------------------------------------------------ keys
key_mref(mxc) == <<"mref:", mxc>>

key_mer(event_id, kind) == <<"mer:", event_id, kind>>

key_queue(mxc) == <<"qdel:", mxc>>

\* a variant of key_prefs with one row for all users
key_prefs_shared(user_id) == <<"prefs:", "">>

key_prefs(user_id) == <<"prefs:", user_id>>

\* --------------------------------------------------------- configuration
\* RetentionPolicy::from_str
from_str(s) ==
    CASE s = "ask_sender" -> "AskSender"
      [] s = "delete_always" -> "DeleteAlways"
      [] OTHER -> "Keep"

VARIABLES
    cf,        \* media_retention column family: key -> value, DOMAIN = keys present
    files,     \* paths present in the media directory
    pdus,      \* timeline: event id -> event JSON (and the refs the pipeline
               \* extracted from it), DOMAIN = events appended
    userroom,  \* sequence of notices the server sent to user rooms
    now,       \* wall clock, seconds
    cfg,       \* config.media_retention_on_redaction
    grace,     \* config.media_retention_grace_period_secs
    proc,      \* redaction tasks: position and locals of each
    net,       \* history: per media, references inserted minus decrements applied
               \* since its MediaRef row was last created
    redacted,  \* history: the events whose on_redaction decrement has completed
    redactions,\* reaction events of the user rooms the server has redacted
    texts,     \* confirmation texts sent to user rooms: <<user, command named>>
    tasks,     \* consume_pending_uploads calls in flight: position and locals
    sweeps,    \* cleanup tasks spawned by track_pending_upload, not yet run
    uploaded,  \* history: the media identifiers handed to track_pending_upload
    returned,  \* history: what each finished consume_pending_uploads call returned
    clock,     \* wall clock, milliseconds (the readings of the pending uploads)
    live,      \* history: the pending rows put and neither overwritten nor
               \* returned by a consume_pending_uploads call since
    call,      \* a function applied to drawn inputs: its name, inputs and output
    ask,       \* an interactive operation in flight: its position and locals
    last       \* history: the operation that made the last step

pendvars == <<tasks, sweeps, uploaded, returned, clock, live>>

vars ==
    <<cf, files, pdus, userroom, now, cfg, grace, proc, net, redacted,
      redactions, texts, tasks, sweeps, uploaded, returned, clock, live, call,
      ask, last>>

\* ------------------------------------------------- column family (Map)
Has(c, k) == k \in DOMAIN c

Put(c, k, v) == [x \in (DOMAIN c) \cup {k} |-> IF x = k THEN v ELSE c[x]]

Del(c, k) == [x \in (DOMAIN c) \ {k} |-> c[x]]

RECURSIVE ApplyPuts(_, _)
ApplyPuts(c, puts) ==
    IF puts = <<>> THEN c
    ELSE ApplyPuts(Put(c, Head(puts)[1], Head(puts)[2]), Tail(puts))

RECURSIVE ApplyDels(_, _)
ApplyDels(c, dels) ==
    IF dels = <<>> THEN c
    ELSE ApplyDels(Del(c, Head(dels)), Tail(dels))

\* Map::write_batch_raw: one atomic batch, the puts in order, then the deletes
write_batch_raw(c, puts, dels) == ApplyDels(ApplyPuts(c, puts), dels)

\* Map::stream_raw_prefix for the prefix mer:<event_id>: , in key order
stream_mer_prefix(c, event_id) ==
    LET present == SelectSeq(KindSeq, LAMBDA k : Has(c, key_mer(event_id, k)))
    IN  [i \in DOMAIN present |->
            <<key_mer(event_id, present[i]), c[key_mer(event_id, present[i])]>>]

\* ------------------------------------------------------------ preferences
DefaultPrefs == [auto_delete_unencrypted |-> FALSE, auto_delete_encrypted |-> FALSE]

\* Retention::get_user_prefs
get_user_prefs(c, user_id) ==
    IF Has(c, key_prefs(user_id)) THEN c[key_prefs(user_id)] ELSE DefaultPrefs

\* Retention::set_user_prefs
set_user_prefs(c, user_id, prefs) == Put(c, key_prefs(user_id), prefs)

\* ------------------------------------------------------ reference tracker
saturating_add(x, y) == x + y

\* i64::saturating_sub saturates at i64::MIN, far below any value reached here
saturating_sub(x, y) == x - y

\* the loop body of insert_mxcs_on_event for one (mxc, local, kind): the two
\* puts it pushes; the MediaRef is read from the column family as it is before
\* the batch is written (get_blocking), never from the puts collected so far
insert_puts_for(c, event_id, room_id, sender, ref) ==
    LET mxc == ref[1]
        local == ref[2]
        kind == ref[3]
        mer == [mxc |-> mxc, room_id |-> room_id, kind |-> kind, sender |-> sender]
        mr == IF Has(c, key_mref(mxc))
              THEN [c[key_mref(mxc)] EXCEPT
                        !.refcount = saturating_add(c[key_mref(mxc)].refcount, 1)]
              ELSE [refcount |-> 1, local |-> local]
    IN  <<<<key_mer(event_id, kind), mer>>, <<key_mref(mxc), mr>>>>

RECURSIVE insert_puts(_, _, _, _, _)
insert_puts(c, event_id, room_id, sender, mxcs) ==
    IF mxcs = <<>> THEN <<>>
    ELSE insert_puts_for(c, event_id, room_id, sender, Head(mxcs))
            \o insert_puts(c, event_id, room_id, sender, Tail(mxcs))

\* Retention::insert_mxcs_on_event: the column family after the call
insert_mxcs_on_event(c, event_id, room_id, sender, mxcs) ==
    IF mxcs = <<>> THEN c
    ELSE write_batch_raw(c, insert_puts(c, event_id, room_id, sender, mxcs), <<>>)

\* a variant of the policy match in which DeleteAlways also waits for the
\* refcount to reach 0
should_queue_unreferenced(policy, mr) ==
    CASE policy = "Keep" -> FALSE
      [] policy = "AskSender" -> mr.refcount = 0
      [] policy = "DeleteAlways" -> mr.local /\ mr.refcount = 0

\* the policy match of decrement_refcount_on_redaction, on the decremented MediaRef
should_queue(policy, mr) ==
    CASE policy = "Keep" -> FALSE
      [] policy = "AskSender" -> mr.refcount = 0
      [] policy = "DeleteAlways" -> mr.local

\* the loop body of decrement_refcount_on_redaction for one streamed row: the
\* locals (puts, dels, to_delete) after it; the MediaRef is read from the
\* column family as it is when the row is processed (cf.get().await)
decrement_row(c, policy, row, acc) ==
    LET key == row[1]
        mer == row[2]
        kmref == key_mref(mer.mxc)
        mr == [c[kmref] EXCEPT !.refcount = saturating_sub(c[kmref].refcount, 1)]
    IN  IF Has(c, kmref)
        THEN [puts |-> Append(acc.puts, <<kmref, mr>>),
              dels |-> Append(acc.dels, key),
              to_delete |->
                  IF should_queue(policy, mr)
                  THEN Append(acc.to_delete,
                              [mxc |-> mer.mxc, room_id |-> mer.room_id,
                               sender |-> mer.sender])
                  ELSE acc.to_delete]
        ELSE [acc EXCEPT !.dels = Append(acc.dels, key)]

\* --------------------------------------------------------- deletion queue
\* a variant of queue_media_for_deletion that leaves the timestamp of an
\* existing candidate alone (insert-if-absent instead of overwrite)
queue_media_keep_enqueued_ts(c, t, mxc, owner, awaiting_confirmation, notification_event_id, confirm_reaction_id, cancel_reaction_id, auto_reaction_id, from_encrypted_room) ==
    Put(c, key_queue(mxc),
        [mxc |-> mxc,
         enqueued_ts |-> IF Has(c, key_queue(mxc))
                         THEN c[key_queue(mxc)].enqueued_ts ELSE t,
         user_id |-> owner,
         awaiting_confirmation |-> awaiting_confirmation,
         notification_event_id |-> notification_event_id,
         confirm_reaction_id |-> confirm_reaction_id,
         cancel_reaction_id |-> cancel_reaction_id,
         auto_reaction_id |-> auto_reaction_id,
         from_encrypted_room |-> from_encrypted_room])

\* Retention::queue_media_for_deletion: overwrite / insert the candidate of
\* mxc with a fresh timestamp
queue_media_for_deletion(c, t, mxc, owner, awaiting_confirmation, notification_event_id, confirm_reaction_id, cancel_reaction_id, auto_reaction_id, from_encrypted_room) ==
    Put(c, key_queue(mxc),
        [mxc |-> mxc,
         enqueued_ts |-> t,
         user_id |-> owner,
         awaiting_confirmation |-> awaiting_confirmation,
         notification_event_id |-> notification_event_id,
         confirm_reaction_id |-> confirm_reaction_id,
         cancel_reaction_id |-> cancel_reaction_id,
         auto_reaction_id |-> auto_reaction_id,
         from_encrypted_room |-> from_encrypted_room])

\* the qdel: rows (prefix scan of K_QUEUE)
QueueKeys(c) == {k \in DOMAIN c : k[1] = "qdel:"}

\* --------------------------------------------------------------- blobs
\* Service::get_media_file (sha256 name) and get_media_file_b64 (legacy name)
get_media_file(key) == <<key, "sha256">>

get_media_file_b64(key) == <<key, "b64">>

\* a string that starts with mxc:// and is no media identifier (no media id)
BadMxc == "mxc://srv"

\* delete_local_media: `mxc.try_into()` yields a media identifier
mxc_parses(mxc) == mxc # BadMxc

\* Data::search_mxc_metadata_prefix: the storage keys of a media identifier
\* (one original per media identifier here, no thumbnails)
search_mxc_metadata_prefix(mxc) == {mxc}

\* the media whose blob was written with media_compat_file_link enabled
LinkedMxcs == {"mxc://srv/A"}

\* Service::create_media_file: the directory entries it makes for a key; the
\* legacy entry is a symlink to the hashed file
create_media_file(key, media_compat_file_link) ==
    {get_media_file(key)} \cup
        (IF media_compat_file_link THEN {get_media_file_b64(key)} ELSE {})

\* the length of the content stored under a key
content_len(key) == IF key = "mxc://srv/A" THEN 3 ELSE 5

\* std::fs::metadata(path) is Ok: the entry exists and, being a symlink (the
\* legacy entries are), the hashed file it points to exists
metadata_ok(fs, path) ==
    /\ path \in fs
    /\ path[2] = "b64" => get_media_file(path[1]) \in fs

\* a variant of remove_file_tolerant that reports the length of the content
\* whether or not the path was there
remove_file_reports_len(fs, path) ==
    [fs |-> fs \ {path}, freed |-> content_len(path[1])]

\* remove_file_tolerant: the directory after the call and the bytes it reports
remove_file_tolerant(fs, path) ==
    IF metadata_ok(fs, path)
    THEN [fs |-> fs \ {path}, freed |-> content_len(path[1])]
    ELSE [fs |-> fs, freed |-> 0]

\* the loop body of delete_local_media for one storage key: the hashed path,
\* then the legacy path
delete_key(fs, key) ==
    LET hashed == remove_file_tolerant(fs, get_media_file(key))
        legacy == remove_file_tolerant(hashed.fs, get_media_file_b64(key))
    IN  [fs |-> legacy.fs, freed |-> hashed.freed + legacy.freed]

RECURSIVE delete_keys(_, _)
delete_keys(fs, keys) ==
    IF keys = {} THEN [fs |-> fs, freed |-> 0]
    ELSE LET key == CHOOSE x \in keys : TRUE
             rest == delete_keys(fs, keys \ {key})
             this == delete_key(rest.fs, key)
         IN  [fs |-> this.fs, freed |-> rest.freed + this.freed]

\* Retention::delete_local_media: the media directory after the call
delete_local_media(fs, mxc) ==
    delete_keys(fs, search_mxc_metadata_prefix(mxc)).fs

\* Retention::delete_local_media: the byte count it returns
deleted_bytes(fs, mxc) ==
    delete_keys(fs, search_mxc_metadata_prefix(mxc)).freed

\* ----------------------------------------------------- candidate evaluator
\* parse_user_retention_preference on the account data document (its `mode`)
parse_user_retention_preference(mode) ==
    CASE mode \in {"delete", "auto"} -> "Delete"
      [] mode = "keep" -> "Keep"
      [] mode = "ask" -> "Ask"
      [] OTHER -> "None"

\* a variant of user_retention_preference that takes a user without a stored
\* preference to want deletion
user_retention_preference_default_delete(acc, user) ==
    IF ~user_is_local(user) THEN "Delete"
    ELSE IF acc = "absent" THEN "Delete"
    ELSE IF parse_user_retention_preference(acc) = "None" THEN "Ask"
    ELSE parse_user_retention_preference(acc)

\* Service::user_retention_preference; `acc` is the mode of the user's account
\* data document as account_data.get_global returns it ("absent": no document)
user_retention_preference(acc, user) ==
    IF ~user_is_local(user) THEN "Delete"
    ELSE IF acc = "absent" THEN "Ask"
    ELSE IF parse_user_retention_preference(acc) = "None" THEN "Ask"
    ELSE parse_user_retention_preference(acc)

\* OwnedUserId::try_from(..).ok() on an optional string: Some for a
\* well-formed user id, None for an absent or malformed one
BadUserId == "not-a-user-id"

parses_as_user_id(u) == u \notin {NoUser, BadUserId}

\* Data::get_media_owner: the uploader recorded for a media identifier
get_media_owner(mxc) == IF mxc = "mxc://srv/A" THEN "@alice:srv" ELSE NoUser

\* owner resolution of evaluate_retention_candidate: candidate.sender, else the
\* recorded uploader, else the sender of the event JSON
\* a variant of the owner resolution that asks the event JSON first
resolve_owner_event_first(event_value, candidate) ==
    IF event_value.known /\ parses_as_user_id(event_value.sender)
    THEN event_value.sender
    ELSE IF parses_as_user_id(candidate.sender) THEN candidate.sender
    ELSE get_media_owner(candidate.mxc)

resolve_owner(event_value, candidate) ==
    IF parses_as_user_id(candidate.sender) THEN candidate.sender
    ELSE IF get_media_owner(candidate.mxc) # NoUser THEN get_media_owner(candidate.mxc)
    ELSE IF event_value.known /\ parses_as_user_id(event_value.sender)
         THEN event_value.sender
    ELSE NoUser

\* a variant of evaluate_retention_candidate without the early return of the
\* Keep policy
evaluate_without_keep_return(acc, policy, event_value, candidate) ==
    LET owner == resolve_owner(event_value, candidate)
    IN  IF owner # NoUser
        THEN IF ~user_is_local(owner)
             THEN [action |-> "DeleteImmediately", owner |-> owner]
             ELSE CASE user_retention_preference(acc, owner) = "Delete" ->
                          [action |-> "DeleteImmediately", owner |-> owner]
                    [] user_retention_preference(acc, owner) = "Keep" ->
                          [action |-> "Skip", owner |-> owner]
                    [] OTHER -> [action |-> "AwaitConfirmation", owner |-> owner]
        ELSE [action |-> "DeleteImmediately", owner |-> NoUser]

\* Service::evaluate_retention_candidate
evaluate_retention_candidate(acc, policy, event_value, candidate) ==
    LET owner == resolve_owner(event_value, candidate)
    IN  IF policy = "Keep" THEN [action |-> "Skip", owner |-> NoUser]
        ELSE IF owner # NoUser
        THEN IF ~user_is_local(owner)
             THEN [action |-> "DeleteImmediately", owner |-> owner]
             ELSE CASE user_retention_preference(acc, owner) = "Delete" ->
                          [action |-> "DeleteImmediately", owner |-> owner]
                    [] user_retention_preference(acc, owner) = "Keep" ->
                          [action |-> "Skip", owner |-> owner]
                    [] OTHER -> [action |-> "AwaitConfirmation", owner |-> owner]
        ELSE [action |-> "DeleteImmediately", owner |-> NoUser]

\* ------------------------------------------------------------ user rooms
\* event ids of the n-th notice of `userroom` and of its reactions
notice_event_id(n) == 4 * n

reaction_event_id(n, emoji) ==
    CASE emoji = "confirm" -> 4 * n + 1
      [] emoji = "cancel" -> 4 * n + 2
      [] emoji = "auto" -> 4 * n + 3

\* ------------------------------------------------ facade: on_redaction
NoJson ==
    [known |-> FALSE, encrypted |-> FALSE, sender |-> NoUser, mxcs |-> {},
     refs |-> <<>>]

\* a redaction task: where it stands, its locals, and (history) the column
\* family as its decrement batch left it
IdleProc ==
    [pc |-> "idle", event_id |-> "", policy |-> "Keep", event_value |-> NoJson,
     rows |-> <<>>, puts |-> <<>>, dels |-> <<>>, to_delete |-> <<>>,
     candidates |-> <<>>, after |-> <<>>]

\* collect_mxcs yields a HashSet; its iteration order is fixed here, the
\* candidates being distinct media identifiers
MxcSeq == <<"mxc://other/B", "mxc://srv/A">>

\* the candidates of retention_decrement_on_redaction: the primary ones of the
\* decrement, or when there are none the mxc:// strings of the event JSON
\* a variant of redaction_candidates that never marks a candidate as coming
\* from an encrypted room
redaction_candidates_plain(event_value, primary) ==
    LET found == SelectSeq(MxcSeq, LAMBDA m : m \in event_value.mxcs)
    IN  IF primary # <<>>
        THEN [i \in DOMAIN primary |->
                 [mxc |-> primary[i].mxc, room_id |-> primary[i].room_id,
                  sender |-> primary[i].sender, from_encrypted_room |-> FALSE]]
        ELSE [i \in DOMAIN found |->
                 [mxc |-> found[i], room_id |-> "!room:srv",
                  sender |-> NoUser, from_encrypted_room |-> FALSE]]

redaction_candidates(event_value, primary) ==
    LET enc == event_value.known /\ event_value.encrypted
        found == SelectSeq(MxcSeq, LAMBDA m : m \in event_value.mxcs)
    IN  IF primary # <<>>
        THEN [i \in DOMAIN primary |->
                 [mxc |-> primary[i].mxc, room_id |-> primary[i].room_id,
                  sender |-> primary[i].sender, from_encrypted_room |-> enc]]
        ELSE [i \in DOMAIN found |->
                 [mxc |-> found[i], room_id |-> "!room:srv",
                  sender |-> NoUser, from_encrypted_room |-> enc]]

\* the flag of the user's auto-delete preferences that matches the candidate
should_auto_delete(c, candidate) ==
    LET user_prefs == IF candidate.sender # NoUser
                      THEN get_user_prefs(c, candidate.sender)
                      ELSE DefaultPrefs
    IN  IF candidate.from_encrypted_room
        THEN user_prefs.auto_delete_encrypted
        ELSE user_prefs.auto_delete_unencrypted

\* the path one candidate takes through the loop of
\* retention_decrement_on_redaction
candidate_path(c, acc, policy, event_value, candidate) ==
    IF should_auto_delete(c, candidate) THEN "auto"
    ELSE evaluate_retention_candidate(acc, policy, event_value, candidate).action

\* one iteration of that loop: the column family and the user rooms after it.
\* `sent` tells whether send_text_with_event_id succeeded and `reacts` which
\* of the three add_reaction calls did.
dispatch_candidate(c, room, acc, t, policy, event_value, candidate, sent, reacts) ==
    LET decision == evaluate_retention_candidate(acc, policy, event_value, candidate)
        path == candidate_path(c, acc, policy, event_value, candidate)
        n == Len(room) + 1
        rid(emoji) == IF emoji \in reacts THEN reaction_event_id(n, emoji) ELSE NoEvent
    IN  CASE path = "auto" ->
               [cf |-> queue_media_for_deletion(c, t, candidate.mxc, candidate.sender,
                           FALSE, NoEvent, NoEvent, NoEvent, NoEvent,
                           candidate.from_encrypted_room),
                userroom |-> room]
          [] path = "DeleteImmediately" ->
               [cf |-> queue_media_for_deletion(c, t, candidate.mxc, decision.owner,
                           FALSE, NoEvent, NoEvent, NoEvent, NoEvent,
                           candidate.from_encrypted_room),
                userroom |-> room]
          [] path = "AwaitConfirmation" /\ decision.owner # NoUser ->
               IF user_is_local(decision.owner) /\ sent
               THEN [cf |-> queue_media_for_deletion(c, t, candidate.mxc,
                                decision.owner, TRUE, notice_event_id(n),
                                rid("confirm"), rid("cancel"), rid("auto"),
                                candidate.from_encrypted_room),
                     userroom |-> Append(room,
                                [user |-> decision.owner, mxc |-> candidate.mxc,
                                 warning |-> candidate.from_encrypted_room,
                                 reacts |-> reacts])]
               ELSE [cf |-> queue_media_for_deletion(c, t, candidate.mxc,
                                decision.owner, TRUE, NoEvent, NoEvent, NoEvent,
                                NoEvent, candidate.from_encrypted_room),
                     userroom |-> room]
          [] OTHER -> [cf |-> c, userroom |-> room]

\* ------------------------------------------------------ reclamation worker
\* variants of worker_eligible: one without the grace test, one without the
\* awaiting_confirmation test
worker_eligible_no_grace(cand, t, g) == ~cand.awaiting_confirmation

worker_eligible_no_awaiting(cand, t, g) == ~(t - cand.enqueued_ts < g)

\* a variant that also skips the candidate whose grace period ends just now
worker_eligible_strict(cand, t, g) ==
    /\ ~cand.awaiting_confirmation
    /\ t - cand.enqueued_ts > g

\* the two skip tests of the sweep, for one candidate
worker_eligible(cand, t, g) ==
    /\ ~cand.awaiting_confirmation
    /\ ~(t - cand.enqueued_ts < g)

\* the delete subroutine's index update: the qdel: and mref: rows of mxc go
delete_rows(c, mxc) == write_batch_raw(c, <<>>, <<key_queue(mxc), key_mref(mxc)>>)

\* the media identifiers a sweep reclaims
sweep_targets(c, t, g) ==
    {c[k].mxc : k \in {q \in QueueKeys(c) : /\ worker_eligible(c[q], t, g)
                                            /\ mxc_parses(c[q].mxc)}}

RECURSIVE sweep_rows(_, _)
sweep_rows(c, targets) ==
    IF targets = {} THEN c
    ELSE LET m == CHOOSE x \in targets : TRUE
         IN  sweep_rows(delete_rows(c, m), targets \ {m})

sweep_files(fs, targets) ==
    fs \ UNION {fs \ delete_local_media(fs, m) : m \in targets}

\* ------------------------------------------------ interactive operations
NoMxc == ""

\* the reaction events to redact: the recorded identifiers that are Some
Recorded(ids) == ids \ {NoEvent}

\* the outcome of an interactive operation that fails: nothing is written
Failed(c, fs, err) ==
    [err |-> err, cf |-> c, fs |-> fs, bytes |-> 0, redact |-> {},
     from_encrypted_room |-> FALSE]

\* a variant of owner_check that only rejects candidates without an owner
owner_check_unknown_only(candidate, requester) ==
    IF candidate.user_id = NoUser THEN "Forbidden" ELSE ""

\* the error of the owner check shared by the three operations, "" when the
\* requester is the recorded owner
owner_check(candidate, requester) ==
    IF candidate.user_id = NoUser THEN "Forbidden"
    ELSE IF candidate.user_id # requester THEN "Forbidden"
    ELSE ""

\* Retention::confirm_candidate
confirm_candidate(c, fs, mxc, requester) ==
    LET key == key_queue(mxc)
    IN  IF ~Has(c, key) THEN Failed(c, fs, "NotFound")
        ELSE IF owner_check(c[key], requester) # ""
        THEN Failed(c, fs, owner_check(c[key], requester))
        ELSE IF ~c[key].awaiting_confirmation THEN Failed(c, fs, "InvalidParam")
        ELSE IF ~mxc_parses(mxc) THEN Failed(c, fs, "BadJson")
        ELSE [err |-> "Ok",
              cf |-> write_batch_raw(c, <<>>, <<key, key_mref(mxc)>>),
              fs |-> delete_local_media(fs, mxc),
              bytes |-> deleted_bytes(fs, mxc),
              redact |-> Recorded({c[key].cancel_reaction_id}),
              from_encrypted_room |-> c[key].from_encrypted_room]

\* a variant of cancel_candidate that also drops the mref: row
cancel_candidate_drops_mref(c, fs, mxc, requester) ==
    LET key == key_queue(mxc)
    IN  IF ~Has(c, key) THEN Failed(c, fs, "NotFound")
        ELSE IF owner_check(c[key], requester) # ""
        THEN Failed(c, fs, owner_check(c[key], requester))
        ELSE [err |-> "Ok",
              cf |-> write_batch_raw(c, <<>>, <<key, key_mref(mxc)>>),
              fs |-> fs,
              bytes |-> 0,
              redact |-> Recorded({c[key].confirm_reaction_id}),
              from_encrypted_room |-> c[key].from_encrypted_room]

\* Retention::cancel_candidate
cancel_candidate(c, fs, mxc, requester) ==
    LET key == key_queue(mxc)
    IN  IF ~Has(c, key) THEN Failed(c, fs, "NotFound")
        ELSE IF owner_check(c[key], requester) # ""
        THEN Failed(c, fs, owner_check(c[key], requester))
        ELSE [err |-> "Ok",
              cf |-> Del(c, key),
              fs |-> fs,
              bytes |-> 0,
              redact |-> Recorded({c[key].confirm_reaction_id}),
              from_encrypted_room |-> c[key].from_encrypted_room]

\* Retention::auto_delete_candidate
auto_delete_candidate(c, fs, mxc, requester) ==
    LET key == key_queue(mxc)
        prefs == get_user_prefs(c, requester)
        new == IF c[key].from_encrypted_room
               THEN [prefs EXCEPT !.auto_delete_encrypted = TRUE]
               ELSE [prefs EXCEPT !.auto_delete_unencrypted = TRUE]
    IN  IF ~Has(c, key) THEN Failed(c, fs, "NotFound")
        ELSE IF owner_check(c[key], requester) # ""
        THEN Failed(c, fs, owner_check(c[key], requester))
        ELSE IF ~mxc_parses(mxc)
        THEN [Failed(set_user_prefs(c, requester, new), fs, "BadJson")
                EXCEPT !.from_encrypted_room = c[key].from_encrypted_room]
        ELSE [err |-> "Ok",
              cf |-> write_batch_raw(set_user_prefs(c, requester, new), <<>>,
                                     <<key, key_mref(mxc)>>),
              fs |-> delete_local_media(fs, mxc),
              bytes |-> deleted_bytes(fs, mxc),
              redact |-> Recorded({c[key].confirm_reaction_id,
                                   c[key].cancel_reaction_id}),
              from_encrypted_room |-> c[key].from_encrypted_room]

\* Retention::find_mxc_by_notification_event: the media of the candidate that
\* records the notification (notification identifiers are unique)
find_mxc_by_notification_event(c, notification_event_id) ==
    LET hits == {k \in QueueKeys(c) :
                    /\ c[k].notification_event_id # NoEvent
                    /\ c[k].notification_event_id = notification_event_id}
    IN  IF hits = {} THEN NoMxc ELSE c[CHOOSE k \in hits : TRUE].mxc

\* the command the confirmation text of retention_auto_by_reaction names
disable_command(from_encrypted_room) ==
    IF from_encrypted_room THEN "prefs-encrypted-off" ELSE "prefs-unencrypted-off"

\* ------------------------------------------------------------ the inputs
\* the events of the timeline: who sent each and whether it is m.room.encrypted
event_sender(e) == IF e = "$E2" THEN "@bob:other" ELSE "@alice:srv"

event_encrypted(e) == e = "$E3"

Ref(m, k) == <<m, mxc_is_local(m), k>>

RefCount(mxcs, m) == Cardinality({i \in DOMAIN mxcs : mxcs[i][1] = m})

PutCount(puts, m) == Cardinality({i \in DOMAIN puts : puts[i][1] = key_mref(m)})

\* ------------------------------------------------------- pending uploads
\* u64::saturating_sub
saturating_sub_u64(x, y) == IF x >= y THEN x - y ELSE 0

\* the matching window of consume_pending_uploads, milliseconds
window_ms == 60000

key_pending(user_id, timestamp_ms) == <<"pending:", user_id, timestamp_ms>>

\* the keys under pending_prefix(user_id)
PendingKeys(c, user_id) ==
    {k \in DOMAIN c : k[1] = "pending:" /\ k[2] = user_id}

\* keys of one user in key order (timestamps of equal width: byte order of
\* the decimal strings is numeric order)
RECURSIVE KeyOrder(_)
KeyOrder(keys) ==
    IF keys = {} THEN <<>>
    ELSE LET k == CHOOSE x \in keys : \A y \in keys : x[3] <= y[3]
         IN  <<k>> \o KeyOrder(keys \ {k})

\* Map::stream_raw_prefix for the prefix pending:<user_id>:
stream_pending_prefix(c, user_id) ==
    LET ks == KeyOrder(PendingKeys(c, user_id))
    IN  [i \in DOMAIN ks |-> <<ks[i], c[ks[i]]>>]

\* the window test with the upper bound dropped
in_window_no_upper(upload_ts, event_ts) ==
    upload_ts >= saturating_sub_u64(event_ts, window_ms)

\* consume_pending_uploads: the test that matches an upload to the event
in_window(upload_ts, event_ts) ==
    /\ upload_ts >= saturating_sub_u64(event_ts, window_ms)
    /\ upload_ts <= event_ts

\* consume_pending_uploads, the loop over the stream: the uploads matched and
\* the keys to remove (matched ones and those older than the window)
consume_scan(c, user_id, event_ts) ==
    LET rows == stream_pending_prefix(c, user_id)
        hit == SelectSeq(rows, LAMBDA r : in_window(r[2].upload_ts, event_ts))
        out == SelectSeq(rows, LAMBDA r :
                   \/ in_window(r[2].upload_ts, event_ts)
                   \/ r[2].upload_ts < saturating_sub_u64(event_ts, window_ms))
    IN  [found_mxcs |-> [i \in DOMAIN hit |-> <<hit[i][2].mxc, TRUE, "encrypted.media">>],
         to_delete |-> [i \in DOMAIN out |-> out[i][1]]]

\* a consume_pending_uploads call that is not running
IdleTask ==
    [pc |-> "idle", user_id |-> NoUser, event_ts |-> 0, found_mxcs |-> <<>>,
     to_delete |-> <<>>]

\* cleanup_old_pending_uploads, the body of the spawned task: the rows of the
\* user older than the cutoff are removed
cleanup_rows(c, user_id, cutoff) ==
    LET rows == stream_pending_prefix(c, user_id)
        old == SelectSeq(rows, LAMBDA r : r[2].upload_ts < cutoff)
    IN  write_batch_raw(c, <<>>, [i \in DOMAIN old |-> old[i][1]])

\* ------------------------------------------------------------ utils::set
\* utils::set::intersection over a sequence of inputs: the elements of the
\* first input for which every other input has an equal element
intersection_any(input) ==
    IF input = <<>> THEN <<>>
    ELSE SelectSeq(Head(input), LAMBDA targ :
             \E k \in DOMAIN input : \E j \in DOMAIN input[k] :
                 k > 1 /\ input[k][j] = targ)

intersection(input) ==
    IF input = <<>> THEN <<>>
    ELSE SelectSeq(Head(input), LAMBDA targ :
             \A k \in 2..Len(input) : \E j \in DOMAIN input[k] : input[k][j] = targ)

\* the filter_map closure of intersection_sorted_stream2 for one item ai of a:
\* b is advanced past its items <= ai, stopping after an item equal to ai
RECURSIVE next_if_upto(_, _)
next_if_upto(ai, b) ==
    IF b = <<>> THEN [hit |-> FALSE, b |-> b]
    ELSE IF Head(b) <= ai
         THEN IF ai = Head(b) THEN [hit |-> TRUE, b |-> Tail(b)]
              ELSE next_if_upto(ai, Tail(b))
         ELSE [hit |-> FALSE, b |-> b]

\* utils::set::intersection_sorted_stream2, collected
RECURSIVE intersection_sorted_stream2(_, _)
intersection_sorted_stream2(a, b) ==
    IF a = <<>> THEN <<>>
    ELSE LET r == next_if_upto(Head(a), b)
         IN  (IF r.hit THEN <<Head(a)>> ELSE <<>>)
                 \o intersection_sorted_stream2(Tail(a), r.b)

\* no interactive operation in flight
IdleAsk ==
    [pc |-> "idle", op |-> "", mxc |-> NoMxc, by |-> NoUser, bytes |-> 0,
     confirm_reaction_id |-> NoEvent, cancel_reaction_id |-> NoEvent,
     from_encrypted_room |-> FALSE]

\* no function applied to drawn inputs
NoCall == [op |-> "", input |-> <<>>, done |-> FALSE, out |-> <<>>]

\* ------------------------------------------------------------ history
\* the record of the operation that made a step; `was` holds the enqueued_ts
\* of the candidate an enqueue replaced, `by` the requester of an interactive
\* operation and `bytes` the byte count it returned
Did(op, arg, act) ==
    [op |-> op, arg |-> arg, act |-> act, was |-> {}, by |-> NoUser, bytes |-> 0]

\* the running count of references inserted minus decrements applied
Counted(n, delta) == [m \in Mxcs |-> n[m] + delta[m]]

\* ------------------------------------------------------------------ Init
\* the state after construction, utils::set aside
InitBase ==
    /\ cf = <<>>
    /\ files = UNION {create_media_file(m, m \in LinkedMxcs) : m \in Mxcs}
    /\ pdus = <<>>
    /\ userroom = <<>>
    /\ now = 0
    /\ cfg \in ConfigStrings
    /\ grace \in {0, LongGrace}
    /\ proc = [p \in Procs |-> IdleProc]
    /\ net = [m \in Mxcs |-> 0]
    /\ redacted = {}
    /\ redactions = {}
    /\ texts = {}
    /\ tasks = [p \in Procs |-> IdleTask]
    /\ sweeps = {}
    /\ uploaded = {}
    /\ returned = <<>>
    /\ clock = 0
    /\ live = {}
    /\ last = Did("init", "", "")

Init == InitBase /\ call = NoCall /\ ask = IdleAsk

\* --------------------------------------------------------------- actions
\* Service::retention_insert_mxcs_on_event, called by the event pipeline when
\* it appends event e (event ids are unique: an event is appended once)
on_event_created(e, mxcs) ==
    /\ e \notin DOMAIN pdus
    /\ cf' = insert_mxcs_on_event(cf, e, "!room:srv", event_sender(e), mxcs)
    /\ pdus' = [x \in (DOMAIN pdus) \cup {e} |->
                   IF x = e
                   THEN [known |-> TRUE, encrypted |-> event_encrypted(e),
                         sender |-> event_sender(e),
                         mxcs |-> IF event_encrypted(e) THEN {}
                                  ELSE {mxcs[i][1] : i \in DOMAIN mxcs},
                         refs |-> mxcs]
                   ELSE pdus[x]]
    /\ net' = Counted(net, [m \in Mxcs |-> RefCount(mxcs, m)])
    /\ last' = Did("on_event_created", e, "")
    /\ UNCHANGED <<pendvars, call, ask>>
    /\ UNCHANGED <<files, userroom, now, cfg, grace, proc, redacted,
                 redactions, texts>>

\* retention_decrement_on_redaction up to the first suspension of the
\* decrement: policy and event JSON are read, the mer: stream is opened
on_redaction_start(p, e) ==
    /\ proc[p].pc = "idle"
    /\ proc' = [proc EXCEPT ![p] =
                   [IdleProc EXCEPT
                       !.pc = "scan",
                       !.event_id = e,
                       !.policy = from_str(cfg),
                       !.event_value = IF e \in DOMAIN pdus THEN pdus[e] ELSE NoJson,
                       !.rows = stream_mer_prefix(cf, e)]]
    /\ last' = Did("on_redaction_start", e, "")
    /\ UNCHANGED <<pendvars, call, ask>>
    /\ UNCHANGED <<cf, files, pdus, userroom, now, cfg, grace, net, redacted,
                 redactions, texts>>

\* one iteration of the stream loop of decrement_refcount_on_redaction
on_redaction_row(p) ==
    /\ proc[p].pc = "scan"
    /\ proc[p].rows # <<>>
    /\ LET acc == decrement_row(cf, proc[p].policy, Head(proc[p].rows),
                                [puts |-> proc[p].puts, dels |-> proc[p].dels,
                                 to_delete |-> proc[p].to_delete])
       IN  proc' = [proc EXCEPT ![p].rows = Tail(proc[p].rows),
                                ![p].puts = acc.puts,
                                ![p].dels = acc.dels,
                                ![p].to_delete = acc.to_delete]
    /\ last' = Did("on_redaction_row", proc[p].event_id, "")
    /\ UNCHANGED <<pendvars, call, ask>>
    /\ UNCHANGED <<cf, files, pdus, userroom, now, cfg, grace, net, redacted,
                 redactions, texts>>

\* the end of the stream: the batch is written and the candidates are collected
on_redaction_commit(p) ==
    /\ proc[p].pc = "scan"
    /\ proc[p].rows = <<>>
    /\ cf' = write_batch_raw(cf, proc[p].puts, proc[p].dels)
    /\ LET cands == redaction_candidates(proc[p].event_value, proc[p].to_delete)
       IN  proc' = [proc EXCEPT ![p] =
                       IF cands = <<>> THEN IdleProc
                       ELSE [proc[p] EXCEPT !.pc = "dispatch", !.candidates = cands,
                                            !.puts = <<>>, !.dels = <<>>,
                                            !.to_delete = <<>>, !.after = cf']]
    /\ net' = Counted(net, [m \in Mxcs |-> 0 - PutCount(proc[p].puts, m)])
    /\ redacted' = redacted \cup {proc[p].event_id}
    /\ last' = Did("on_redaction_commit", proc[p].event_id, "")
    /\ UNCHANGED <<pendvars, call, ask>>
    /\ UNCHANGED <<files, pdus, userroom, now, cfg, grace,
                 redactions, texts>>

\* one iteration of the candidate loop of retention_decrement_on_redaction
on_redaction_dispatch(p, accdata, sent, reacts) ==
    /\ proc[p].pc = "dispatch"
    /\ sent => Len(userroom) < MaxNotices
    /\ ~sent => reacts = {}
    /\ LET cand == Head(proc[p].candidates)
           res == dispatch_candidate(cf, userroom, accdata, now, proc[p].policy,
                                     proc[p].event_value, cand, sent, reacts)
       IN  /\ cf' = res.cf
           /\ userroom' = res.userroom
           /\ last' = [Did("on_redaction_dispatch", cand.mxc,
                           candidate_path(cf, accdata, proc[p].policy,
                                          proc[p].event_value, cand))
                         EXCEPT !.was = IF Has(cf, key_queue(cand.mxc))
                                        THEN {cf[key_queue(cand.mxc)].enqueued_ts}
                                        ELSE {}]
    /\ proc' = [proc EXCEPT ![p] =
                   IF Len(proc[p].candidates) = 1 THEN IdleProc
                   ELSE [proc[p] EXCEPT !.candidates = Tail(proc[p].candidates)]]
    /\ UNCHANGED <<pendvars, call, ask>>
    /\ UNCHANGED <<files, pdus, now, cfg, grace, net, redacted,
                 redactions, texts>>

\* Retention::worker_process_queue: one sweep of the deletion queue, where
\* std::fs::remove_file fails on the paths in stuck (remove_file_tolerant
\* ignores the error and reports 0 bytes, as for a path that is not there)
sweep(stuck) ==
    /\ LET targets == sweep_targets(cf, now, grace)
       IN  /\ cf' = sweep_rows(cf, targets)
           /\ files' = sweep_files(files \ stuck, targets) \cup (files \cap stuck)
           /\ net' = [m \in Mxcs |-> IF m \in targets THEN 0 ELSE net[m]]
    /\ last' = Did("worker_process_queue", "", "")
    /\ UNCHANGED <<pendvars, call, ask>>
    /\ UNCHANGED <<pdus, userroom, now, cfg, grace, proc, redacted,
                 redactions, texts>>

\* a sweep in which every removal succeeds
worker_process_queue == sweep({})

\* the prefs-* user commands of a local user
prefs_command(u, cmd) ==
    /\ user_is_local(u)
    /\ LET prefs == get_user_prefs(cf, u)
           new == CASE cmd = "prefs-encrypted-on" ->
                          [prefs EXCEPT !.auto_delete_encrypted = TRUE]
                    [] cmd = "prefs-encrypted-off" ->
                          [prefs EXCEPT !.auto_delete_encrypted = FALSE]
                    [] cmd = "prefs-unencrypted-on" ->
                          [prefs EXCEPT !.auto_delete_unencrypted = TRUE]
                    [] cmd = "prefs-unencrypted-off" ->
                          [prefs EXCEPT !.auto_delete_unencrypted = FALSE]
                    [] OTHER -> DefaultPrefs
       IN  cf' = set_user_prefs(cf, u, new)
    /\ last' = Did("prefs_command", u, cmd)
    /\ UNCHANGED <<pendvars, call, ask>>
    /\ UNCHANGED <<files, pdus, userroom, now, cfg, grace, proc, net, redacted,
                 redactions, texts>>

\* the history record of an interactive operation and its outcome
DidAsk(op, mxc, requester, r) ==
    [Did(op, mxc, r.err) EXCEPT !.by = requester, !.bytes = r.bytes]

\* the state after an interactive operation with outcome r on media mxc
Outcome(mxc, r) ==
    /\ cf' = r.cf
    /\ files' = r.fs
    /\ redactions' = redactions \cup r.redact
    /\ net' = IF Has(cf, key_mref(mxc)) /\ ~Has(r.cf, key_mref(mxc))
              THEN [net EXCEPT ![mxc] = 0] ELSE net

\* the `confirm` user command of a local user: retention_confirm_deletion
confirm_command(u, mxc) ==
    /\ user_is_local(u)
    /\ LET r == confirm_candidate(cf, files, mxc, u)
       IN  /\ Outcome(mxc, r)
           /\ last' = DidAsk("confirm_command", mxc, u, r)
    /\ UNCHANGED <<pendvars, call, ask>>
    /\ UNCHANGED <<pdus, userroom, now, cfg, grace, proc, redacted, texts>>

\* userroom reaction_hook: a local user reacts, in their own user room, to
\* event relates_to_event with one of the three emojis
reaction_hook(sender, relates_to_event, emoji) ==
    /\ user_is_local(sender)
    /\ LET mxc == find_mxc_by_notification_event(cf, relates_to_event)
           r == CASE emoji = "confirm" -> confirm_candidate(cf, files, mxc, sender)
                  [] emoji = "cancel" -> cancel_candidate(cf, files, mxc, sender)
                  [] emoji = "auto" -> auto_delete_candidate(cf, files, mxc, sender)
       IN  IF mxc = NoMxc
           THEN /\ last' = DidAsk("reaction_" \o emoji, NoMxc, sender,
                                  Failed(cf, files, "Ok"))
                /\ UNCHANGED <<cf, files, redactions, net, texts>>
           ELSE /\ Outcome(mxc, r)
                /\ last' = DidAsk("reaction_" \o emoji, mxc, sender, r)
                /\ texts' = IF emoji = "auto" /\ r.err = "Ok"
                            THEN texts \cup
                                 {<<sender, disable_command(r.from_encrypted_room)>>}
                            ELSE texts
    /\ UNCHANGED <<pendvars, call, ask>>
    /\ UNCHANGED <<pdus, userroom, now, cfg, grace, proc, redacted>>

\* The interactive operations step by step, one step per stretch of code
\* between two suspension points. ask_begin is the lookup of the candidate and
\* the checks on it: an operation that fails them returns its error at once.
ask_error(op, c, mxc, requester) ==
    LET key == key_queue(mxc)
    IN  IF ~Has(c, key) THEN "NotFound"
        ELSE IF owner_check(c[key], requester) # "" THEN owner_check(c[key], requester)
        ELSE IF op = "confirm" /\ ~c[key].awaiting_confirmation THEN "InvalidParam"
        ELSE ""

ask_begin(op, name, mxc, requester) ==
    /\ ask.pc = "idle"
    /\ LET err == ask_error(op, cf, mxc, requester)
           cand == cf[key_queue(mxc)]
       IN  IF err # ""
           THEN /\ last' = DidAsk(name, mxc, requester, Failed(cf, files, err))
                /\ ask' = ask
           ELSE /\ last' = [Did("ask_begin", mxc, op) EXCEPT !.by = requester]
                /\ ask' = [pc |-> CASE op = "confirm" -> "delete"
                                    [] op = "cancel" -> "write"
                                    [] op = "auto" -> "prefs",
                           op |-> op, mxc |-> mxc, by |-> requester, bytes |-> 0,
                           confirm_reaction_id |-> cand.confirm_reaction_id,
                           cancel_reaction_id |-> cand.cancel_reaction_id,
                           from_encrypted_room |-> cand.from_encrypted_room]
    /\ UNCHANGED <<pendvars, call>>
    /\ UNCHANGED <<cf, files, pdus, userroom, now, cfg, grace, proc, net, redacted,
                 redactions, texts>>

\* the `confirm` user command, up to the delete subroutine
confirm_command_begin(u, mxc) ==
    /\ user_is_local(u)
    /\ ask_begin("confirm", "confirm_command", mxc, u)

\* the reaction hook, from the lookup of the notice to the first write
reaction_hook_begin(sender, relates_to_event, emoji) ==
    /\ user_is_local(sender)
    /\ find_mxc_by_notification_event(cf, relates_to_event) # NoMxc
    /\ ask_begin(emoji, "reaction_" \o emoji,
                 find_mxc_by_notification_event(cf, relates_to_event), sender)

\* auto_delete_candidate: the preference is read, set and saved
ask_prefs ==
    /\ ask.pc = "prefs"
    /\ LET prefs == get_user_prefs(cf, ask.by)
           new == IF ask.from_encrypted_room
                  THEN [prefs EXCEPT !.auto_delete_encrypted = TRUE]
                  ELSE [prefs EXCEPT !.auto_delete_unencrypted = TRUE]
       IN  cf' = set_user_prefs(cf, ask.by, new)
    /\ ask' = [ask EXCEPT !.pc = "delete"]
    /\ last' = [Did("ask_prefs", ask.mxc, ask.op) EXCEPT !.by = ask.by]
    /\ UNCHANGED <<pendvars, call>>
    /\ UNCHANGED <<files, pdus, userroom, now, cfg, grace, proc, net, redacted,
                 redactions, texts>>

\* confirm_candidate / auto_delete_candidate: delete_local_media
ask_delete ==
    /\ ask.pc = "delete"
    /\ IF mxc_parses(ask.mxc)
       THEN /\ files' = delete_local_media(files, ask.mxc)
            /\ ask' = [ask EXCEPT !.pc = "write",
                                  !.bytes = deleted_bytes(files, ask.mxc)]
            /\ last' = [Did("ask_delete", ask.mxc, ask.op) EXCEPT !.by = ask.by]
       ELSE /\ files' = files
            /\ ask' = IdleAsk
            /\ last' = [Did("ask_" \o ask.op, ask.mxc, "BadJson")
                          EXCEPT !.by = ask.by]
    /\ UNCHANGED <<pendvars, call>>
    /\ UNCHANGED <<cf, pdus, userroom, now, cfg, grace, proc, net, redacted,
                 redactions, texts>>

\* the write that ends the operation (cancel: cf.remove of the qdel: key;
\* confirm and always-auto: the batch delete of the qdel: and mref: keys),
\* the return, and the redactions and the text the caller sends on Ok
ask_write ==
    /\ ask.pc = "write"
    /\ cf' = IF ask.op = "cancel" THEN Del(cf, key_queue(ask.mxc))
             ELSE write_batch_raw(cf, <<>>, <<key_queue(ask.mxc), key_mref(ask.mxc)>>)
    /\ redactions' = redactions \cup
          Recorded(CASE ask.op = "confirm" -> {ask.cancel_reaction_id}
                     [] ask.op = "cancel" -> {ask.confirm_reaction_id}
                     [] ask.op = "auto" -> {ask.confirm_reaction_id,
                                            ask.cancel_reaction_id})
    /\ texts' = IF ask.op = "auto"
                THEN texts \cup {<<ask.by, disable_command(ask.from_encrypted_room)>>}
                ELSE texts
    /\ net' = IF Has(cf, key_mref(ask.mxc)) /\ ~Has(cf', key_mref(ask.mxc))
              THEN [net EXCEPT ![ask.mxc] = 0] ELSE net
    /\ last' = [Did("ask_" \o ask.op, ask.mxc, "Ok")
                  EXCEPT !.by = ask.by, !.bytes = ask.bytes]
    /\ ask' = IdleAsk
    /\ UNCHANGED <<pendvars, call>>
    /\ UNCHANGED <<files, pdus, userroom, now, cfg, grace, proc, redacted>>

\* Retention::track_pending_upload at clock reading upload_ts (milliseconds);
\* media identifiers are generated fresh for every upload
track_pending_upload(user_id, mxc, upload_ts) ==
    /\ mxc \notin uploaded
    /\ cf' = Put(cf, key_pending(user_id, upload_ts),
                 [mxc |-> mxc, user_id |-> user_id, upload_ts |-> upload_ts])
    /\ sweeps' = sweeps \cup
                 {[user_id |-> user_id,
                   cutoff |-> saturating_sub_u64(upload_ts, window_ms),
                   pc |-> "spawned", to_delete |-> <<>>]}
    /\ uploaded' = uploaded \cup {mxc}
    /\ live' = {r \in live : r.user_id # user_id \/ r.upload_ts # upload_ts}
                  \cup {[mxc |-> mxc, user_id |-> user_id, upload_ts |-> upload_ts]}
    /\ last' = Did("track_pending_upload", mxc, "")
    /\ UNCHANGED <<files, pdus, userroom, now, cfg, grace, proc, net, redacted,
                 redactions, texts, tasks, returned, clock, call, ask>>

\* the task spawned by cleanup_old_pending_uploads runs
cleanup_old_pending_uploads(s) ==
    /\ s \in sweeps
    /\ s.pc = "spawned"
    /\ cf' = cleanup_rows(cf, s.user_id, s.cutoff)
    /\ sweeps' = sweeps \ {s}
    /\ last' = Did("cleanup_old_pending_uploads", s.user_id, "")
    /\ UNCHANGED <<files, pdus, userroom, now, cfg, grace, proc, net, redacted,
                 redactions, texts, tasks, uploaded, returned, clock, live, call,
                 ask>>

\* the keys the spawned task collects from the stream: those of the rows of
\* the user older than the cutoff
cleanup_keys(c, user_id, cutoff) ==
    LET rows == stream_pending_prefix(c, user_id)
        old == SelectSeq(rows, LAMBDA r : r[2].upload_ts < cutoff)
    IN  [i \in DOMAIN old |-> old[i][1]]

\* the spawned task, up to the end of the stream
cleanup_scan(s) ==
    /\ s \in sweeps
    /\ s.pc = "spawned"
    /\ sweeps' = (sweeps \ {s}) \cup
                 {[s EXCEPT !.pc = "write",
                            !.to_delete = cleanup_keys(cf, s.user_id, s.cutoff)]}
    /\ last' = Did("cleanup_scan", s.user_id, "")
    /\ UNCHANGED <<cf, files, pdus, userroom, now, cfg, grace, proc, net,
                 redacted, redactions, texts, tasks, uploaded, returned, clock,
                 live, call, ask>>

\* the spawned task: the batch delete of the keys collected
cleanup_write(s) ==
    /\ s \in sweeps
    /\ s.pc = "write"
    /\ cf' = write_batch_raw(cf, <<>>, s.to_delete)
    /\ sweeps' = sweeps \ {s}
    /\ last' = [Did("cleanup_write", s.user_id, "") EXCEPT !.was = {s.to_delete[i] : i \in DOMAIN s.to_delete}]
    /\ UNCHANGED <<files, pdus, userroom, now, cfg, grace, proc, net, redacted,
                 redactions, texts, tasks, uploaded, returned, clock, live, call,
                 ask>>

\* consume_pending_uploads(user_id, event_ts), up to the end of the stream
consume_pending_scan(p, user_id, event_ts) ==
    /\ tasks[p].pc = "idle"
    /\ Len(returned) + Cardinality({q \in Procs : tasks[q].pc # "idle"}) < MaxConsumes
    /\ LET r == consume_scan(cf, user_id, event_ts)
       IN  tasks' = [tasks EXCEPT ![p] =
                        [pc |-> "write", user_id |-> user_id, event_ts |-> event_ts,
                         found_mxcs |-> r.found_mxcs, to_delete |-> r.to_delete]]
    /\ last' = Did("consume_pending_scan", user_id, "")
    /\ UNCHANGED <<cf, files, pdus, userroom, now, cfg, grace, proc, net,
                 redacted, redactions, texts, sweeps, uploaded, returned, clock,
                 live, call, ask>>

\* consume_pending_uploads: the batch delete and the return
consume_pending_return(p) ==
    /\ tasks[p].pc = "write"
    /\ cf' = write_batch_raw(cf, <<>>, tasks[p].to_delete)
    /\ returned' = Append(returned, [user_id |-> tasks[p].user_id,
                                     event_ts |-> tasks[p].event_ts,
                                     found_mxcs |-> tasks[p].found_mxcs])
    /\ live' = {r \in live : \A i \in DOMAIN tasks[p].found_mxcs :
                                 tasks[p].found_mxcs[i][1] # r.mxc}
    /\ tasks' = [tasks EXCEPT ![p] = IdleTask]
    /\ last' = Did("consume_pending_return", tasks[p].user_id, "")
    /\ UNCHANGED <<files, pdus, userroom, now, cfg, grace, proc, net, redacted,
                 redactions, texts, sweeps, uploaded, clock, call, ask>>

\* the readings of the millisecond clock, in order
ClockReadings == <<0, 1, window_ms + 1, window_ms + 2>>

\* the clock advances to its next reading
ClockTick ==
    /\ \E i \in 1..(Len(ClockReadings) - 1) :
          /\ clock = ClockReadings[i]
          /\ clock' = ClockReadings[i + 1]
    /\ last' = Did("clock_tick", "", "")
    /\ UNCHANGED <<cf, files, pdus, userroom, now, cfg, grace, proc, net,
                 redacted, redactions, texts, tasks, sweeps, uploaded, returned,
                 live, call, ask>>

\* a call of utils::set::intersection with the inputs drawn at the start
intersection_call ==
    /\ call.op = "intersection"
    /\ ~call.done
    /\ call' = [call EXCEPT !.done = TRUE, !.out = intersection(call.input)]
    /\ last' = Did("intersection", "", "")
    /\ UNCHANGED <<pendvars, ask>>
    /\ UNCHANGED <<cf, files, pdus, userroom, now, cfg, grace, proc, net, redacted,
                 redactions, texts>>

\* a call of utils::set::intersection_sorted_stream2 on the two streams drawn
\* at the start, collected
intersection_sorted_stream2_call ==
    /\ call.op = "intersection_sorted_stream2"
    /\ ~call.done
    /\ call' = [call EXCEPT !.done = TRUE,
                     !.out = intersection_sorted_stream2(call.input[1], call.input[2])]
    /\ last' = Did("intersection_sorted_stream2", "", "")
    /\ UNCHANGED <<pendvars, ask>>
    /\ UNCHANGED <<cf, files, pdus, userroom, now, cfg, grace, proc, net, redacted,
                 redactions, texts>>

\* a call of Service::evaluate_retention_candidate with the arguments and the
\* account data drawn at the start
evaluate_call ==
    /\ call.op = "evaluate_retention_candidate"
    /\ ~call.done
    /\ call' = [call EXCEPT !.done = TRUE,
                    !.out = evaluate_retention_candidate(call.input.acc, call.input.policy,
                                call.input.event_value, call.input.candidate)]
    /\ last' = Did("evaluate_retention_candidate", call.input.candidate.mxc, call'.out.action)
    /\ UNCHANGED <<pendvars, ask>>
    /\ UNCHANGED <<cf, files, pdus, userroom, now, cfg, grace, proc, net, redacted,
                 redactions, texts>>

\* a second of wall-clock time passes
Tick ==
    /\ now < MaxTime
    /\ now' = now + 1
    /\ last' = Did("tick", "", "")
    /\ UNCHANGED <<pendvars, call, ask>>
    /\ UNCHANGED <<cf, files, pdus, userroom, cfg, grace, proc, net, redacted,
                 redactions, texts>>

\* ------------------------------------------------------- specifications
\* The retention engine with one redaction in flight at a time.
QueueEvents == {"$E1", "$E2"}

QueueRefLists ==
    {<<Ref("mxc://srv/A", "content.url")>>,
     <<Ref("mxc://other/B", "content.url")>>}

QueuePrefsCommands == {"prefs-unencrypted-on", "prefs-reset"}

Next ==
    \/ \E e \in QueueEvents, mxcs \in QueueRefLists : on_event_created(e, mxcs)
    \/ \E e \in QueueEvents : on_redaction_start(1, e)
    \/ on_redaction_row(1)
    \/ on_redaction_commit(1)
    \/ \E acc \in AccountModes, sent \in BOOLEAN, reacts \in {{}, Emojis} :
          on_redaction_dispatch(1, acc, sent, reacts)
    \/ worker_process_queue
    \/ \E u \in Users, cmd \in QueuePrefsCommands : prefs_command(u, cmd)
    \/ Tick

Spec == Init /\ [][Next]_vars

\* The reference tracker: every shape of refs list, three events, one redaction
\* in flight at a time, the clock standing still.
RefsLists ==
    {<<>>,
     <<Ref("mxc://srv/A", "content.url")>>,
     <<Ref("mxc://srv/A", "content.url"), Ref("mxc://srv/A", "thumbnail_url")>>,
     <<Ref("mxc://srv/A", "content.url"), Ref("mxc://other/B", "content.url")>>}

NextRefs ==
    \/ \E e \in Events, mxcs \in RefsLists : on_event_created(e, mxcs)
    \/ \E e \in Events : on_redaction_start(1, e)
    \/ on_redaction_row(1)
    \/ on_redaction_commit(1)
    \/ on_redaction_dispatch(1, "delete", FALSE, {})
    \/ worker_process_queue

SpecRefs == Init /\ [][NextRefs]_vars

\* The interactive operations on the candidates redactions leave: the owner
\* and another local user confirm, cancel and choose always-auto.
Requesters == {"@alice:srv", "@carol:srv"}

AskRefLists ==
    {<<Ref("mxc://srv/A", "content.url")>>,
     <<Ref("mxc://other/B", "content.url")>>}

ReactTargets == {notice_event_id(n) : n \in 1..MaxNotices}

AskEvents == {"$E1", "$E3"}

\* the server runs under a policy that queues, the worker is not looked at
InitAsk == Init /\ from_str(cfg) # "Keep" /\ grace = 0

NextAsk ==
    \/ \E e \in AskEvents, mxcs \in AskRefLists : on_event_created(e, mxcs)
    \/ \E e \in AskEvents : on_redaction_start(1, e)
    \/ on_redaction_row(1)
    \/ on_redaction_commit(1)
    \/ \E sent \in BOOLEAN, reacts \in {{}, {"confirm"}, Emojis} :
          on_redaction_dispatch(1, "absent", sent, reacts)
    \/ \E u \in Requesters, m \in Mxcs : confirm_command(u, m)
    \/ \E u \in Requesters, ev \in ReactTargets, emoji \in Emojis :
          reaction_hook(u, ev, emoji)
    \/ prefs_command("@alice:srv", "prefs-unencrypted-on")

SpecAsk == InitAsk /\ [][NextAsk]_vars

\* The pending uploads of encrypted rooms: uploads tracked, cleanup tasks, and
\* up to two consume_pending_uploads calls in flight.
PendingUsers == {"@alice:srv", "@carol:srv"}

PendingMxcs == {"mxc://srv/A", "mxc://srv/C", "mxc://srv/D"}

\* clock readings of uploads, around the window of the events below
UploadTimes ==
    [u \in PendingUsers |->
        IF u = "@alice:srv" THEN {0, 1, window_ms + 1, window_ms + 2} ELSE {1}]

EventTimes == {1, window_ms + 1}

InitPending == Init /\ cfg = "keep" /\ grace = 0

NextPending ==
    \/ \E u \in PendingUsers, m \in PendingMxcs :
           \E t \in UploadTimes[u] : track_pending_upload(u, m, t)
    \/ \E s \in sweeps : cleanup_old_pending_uploads(s)
    \/ \E p \in Procs, u \in PendingUsers, t \in EventTimes :
           consume_pending_scan(p, u, t)
    \/ \E p \in Procs : consume_pending_return(p)

SpecPending == InitPending /\ [][NextPending]_vars

\* The preference commands of two local users.
PrefsUsers == {"@alice:srv", "@carol:srv"}

PrefsCommands ==
    {"prefs-encrypted-on", "prefs-encrypted-off", "prefs-unencrypted-on",
     "prefs-unencrypted-off", "prefs-reset"}

NextPrefs == \E u \in PrefsUsers, cmd \in PrefsCommands : prefs_command(u, cmd)

SpecPrefs == Init /\ [][NextPrefs]_vars

\* Uploads matched into encrypted events: alice uploads mxc://srv/A, her
\* encrypted event $E3 consumes the pending upload, $E1 references the media
\* in the clear, and either event is redacted.
S5UploadTimes == {1000, 70000}

S5EventTimes == {5000}

InitS5 == Init /\ grace = 0

NextS5 ==
    \/ \E t \in S5UploadTimes : track_pending_upload("@alice:srv", "mxc://srv/A", t)
    \/ \E s \in sweeps : cleanup_old_pending_uploads(s)
    \/ \E t \in S5EventTimes : consume_pending_scan(1, "@alice:srv", t)
    \/ consume_pending_return(1)
    \/ \E i \in DOMAIN returned : on_event_created("$E3", returned[i].found_mxcs)
    \/ on_event_created("$E1", <<Ref("mxc://srv/A", "content.url")>>)
    \/ \E e \in {"$E1", "$E3"} : on_redaction_start(1, e)
    \/ on_redaction_row(1)
    \/ on_redaction_commit(1)
    \/ \E acc \in AccountModes, sent \in BOOLEAN, reacts \in {{}, Emojis} :
          on_redaction_dispatch(1, acc, sent, reacts)

SpecS5 == InitS5 /\ [][NextS5]_vars

\* The reclamation worker under its schedule: Service::worker runs the sweep
\* in an endless loop and the clock advances, so both are taken weakly fair.
WorkerEvents == {"$E1", "$E2"}

WorkerRefLists == {<<Ref("mxc://srv/A", "content.url")>>}

InitWorker == Init /\ from_str(cfg) # "Keep"

NextWorker ==
    \/ \E e \in WorkerEvents, mxcs \in WorkerRefLists : on_event_created(e, mxcs)
    \/ \E e \in WorkerEvents : on_redaction_start(1, e)
    \/ on_redaction_row(1)
    \/ on_redaction_commit(1)
    \/ \E acc \in AccountModes : on_redaction_dispatch(1, acc, TRUE, Emojis)
    \/ worker_process_queue
    \/ Tick

SpecWorker ==
    /\ InitWorker
    /\ [][NextWorker]_vars
    /\ WF_vars(worker_process_queue)
    /\ WF_vars(Tick)

\* The pending uploads under the clock: uploads are stamped with the reading
\* of the clock, the event of a consume_pending_uploads call was stamped at
\* that or a slightly earlier reading, and the cleanup tasks run their scan and their
\* batch delete as separate steps.
\* who uploads which media
CleanUploads ==
    {<<"@alice:srv", "mxc://srv/A">>, <<"@alice:srv", "mxc://srv/C">>,
     <<"@carol:srv", "mxc://srv/D">>}

\* the readings at which the event of a call made now may have been stamped:
\* at most MaxLag milliseconds ago
PastReadings ==
    {ClockReadings[i] : i \in {j \in DOMAIN ClockReadings :
                                  /\ ClockReadings[j] <= clock
                                  /\ clock - ClockReadings[j] <= MaxLag}}

NextClean ==
    \/ \E um \in CleanUploads : track_pending_upload(um[1], um[2], clock)
    \/ \E s \in sweeps : cleanup_scan(s)
    \/ \E s \in sweeps : cleanup_write(s)
    \/ \E p \in Procs, t \in PastReadings :
           consume_pending_scan(p, "@alice:srv", t)
    \/ \E p \in Procs : consume_pending_return(p)
    \/ ClockTick

SpecClean == InitPending /\ [][NextClean]_vars

\* The interactive operations on a candidate whose media identifier does not
\* parse: alice's events reference it, are redacted, and she answers the notice.
BadEvents == {"$E1", "$E3"}

BadRefLists == {<<Ref("mxc://srv/A", "content.url")>>, <<Ref(BadMxc, "content.url")>>}

InitBad == Init /\ cfg = "ask_sender" /\ grace = 0

NextBad ==
    \/ \E e \in BadEvents, mxcs \in BadRefLists : on_event_created(e, mxcs)
    \/ \E e \in BadEvents : on_redaction_start(1, e)
    \/ on_redaction_row(1)
    \/ on_redaction_commit(1)
    \/ on_redaction_dispatch(1, "absent", TRUE, Emojis)
    \/ \E m \in {"mxc://srv/A", BadMxc} : confirm_command("@alice:srv", m)
    \/ \E ev \in ReactTargets, emoji \in Emojis :
          reaction_hook("@alice:srv", ev, emoji)

SpecBad == InitBad /\ [][NextBad]_vars

\* The worker with candidates it cannot reclaim: a media identifier that does
\* not parse, and blobs whose removal fails.
FailEvents == {"$E1", "$E2"}

FailRefLists == {<<Ref("mxc://srv/A", "content.url")>>, <<Ref(BadMxc, "content.url")>>}

StuckPaths == {get_media_file("mxc://srv/A")}

InitFail == Init /\ cfg = "ask_sender" /\ grace = 0

NextFail ==
    \/ \E e \in FailEvents, mxcs \in FailRefLists : on_event_created(e, mxcs)
    \/ \E e \in FailEvents : on_redaction_start(1, e)
    \/ on_redaction_row(1)
    \/ on_redaction_commit(1)
    \/ on_redaction_dispatch(1, "delete", FALSE, {})
    \/ \E stuck \in SUBSET StuckPaths : sweep(stuck)
    \/ Tick

SpecFail ==
    /\ InitFail
    /\ [][NextFail]_vars
    /\ WF_vars(\E stuck \in SUBSET StuckPaths : sweep(stuck))
    /\ WF_vars(Tick)

\* utils::set: the two intersection functions on inputs drawn at the start.
Items == 1..MaxItem

\* the sequences over Items of length at most n
SeqsUpTo(n) == UNION {[1..k -> Items] : k \in 0..n}

IsSorted(q) == \A i \in DOMAIN q : \A j \in DOMAIN q : i < j => q[i] <= q[j]

InputLists == UNION {[1..k -> SeqsUpTo(MaxItemsLen)] : k \in 0..MaxInputs}

SortedStreams == {q \in SeqsUpTo(MaxStreamLen) : IsSorted(q)}

InitSet ==
    /\ InitBase
    /\ ask = IdleAsk
    /\ cfg = "keep"
    /\ grace = 0
    /\ \/ \E input \in InputLists :
              call = [NoCall EXCEPT !.op = "intersection", !.input = input]
       \/ \E a \in SortedStreams, b \in SortedStreams :
              call = [NoCall EXCEPT !.op = "intersection_sorted_stream2",
                                     !.input = <<a, b>>]

NextSet == intersection_call \/ intersection_sorted_stream2_call

SpecSet == InitSet /\ [][NextSet]_vars

\* The candidate evaluator on every combination of policy, account data,
\* candidate and event JSON.
EvalModes == {"absent", "delete", "auto", "keep", "ask", "other"}

EvalCandidates ==
    {[mxc |-> m, room_id |-> "!room:srv", sender |-> u] :
        m \in Mxcs, u \in Users \cup {NoUser, BadUserId}}

EvalEventValues ==
    {NoJson} \cup {[NoJson EXCEPT !.known = TRUE, !.sender = u] :
                    u \in Users \cup {NoUser, BadUserId}}

InitEval ==
    /\ InitBase
    /\ ask = IdleAsk
    /\ cfg = "keep"
    /\ grace = 0
    /\ \E acc \in EvalModes, policy \in PolicyNames :
       \E event_value \in EvalEventValues, candidate \in EvalCandidates :
           call = [NoCall EXCEPT
                      !.op = "evaluate_retention_candidate",
                      !.input = [acc |-> acc, policy |-> policy,
                                 event_value |-> event_value,
                                 candidate |-> candidate]]

NextEval == evaluate_call

SpecEval == InitEval /\ [][NextEval]_vars

\* A notice whose reactions fail in every combination, and the owner reacting
\* to it afterwards.
ReactEvents == {"$E1", "$E3"}

ReactRefLists == {<<Ref("mxc://srv/A", "content.url")>>}

InitReact == Init /\ cfg = "ask_sender" /\ grace = 0

NextReact ==
    \/ \E e \in ReactEvents, mxcs \in ReactRefLists : on_event_created(e, mxcs)
    \/ \E e \in ReactEvents : on_redaction_start(1, e)
    \/ on_redaction_row(1)
    \/ on_redaction_commit(1)
    \/ \E reacts \in SUBSET Emojis : on_redaction_dispatch(1, "absent", TRUE, reacts)
    \/ \E ev \in ReactTargets, emoji \in Emojis :
          reaction_hook("@alice:srv", ev, emoji)

SpecReact == InitReact /\ [][NextReact]_vars

\* The reclamation worker against an interactive operation that is in flight.
SweepEvents == {"$E1", "$E2"}

SweepRefLists == {<<Ref("mxc://srv/A", "content.url")>>}

InitSweep == Init /\ from_str(cfg) # "Keep" /\ grace = 0

NextSweep ==
    \/ \E e \in SweepEvents, mxcs \in SweepRefLists : on_event_created(e, mxcs)
    \/ \E e \in SweepEvents : on_redaction_start(1, e)
    \/ on_redaction_row(1)
    \/ on_redaction_commit(1)
    \/ \E sent \in BOOLEAN :
          on_redaction_dispatch(1, "absent", sent, IF sent THEN Emojis ELSE {})
    \/ worker_process_queue
    \/ confirm_command_begin("@alice:srv", "mxc://srv/A")
    \/ \E ev \in ReactTargets, emoji \in Emojis :
          reaction_hook_begin("@alice:srv", ev, emoji)
    \/ ask_prefs
    \/ ask_delete
    \/ ask_write

SpecSweep == InitSweep /\ [][NextSweep]_vars

\* A candidate that awaits its owner while other events that reference the
\* same media are redacted: the owner never changes their preference.
AwaitEvents == {"$E1", "$E2"}

AwaitRefLists == {<<Ref("mxc://srv/A", "content.url")>>}

InitAwait == Init /\ from_str(cfg) # "Keep" /\ grace = 0

NextAwait ==
    \/ \E e \in AwaitEvents, mxcs \in AwaitRefLists : on_event_created(e, mxcs)
    \/ \E e \in AwaitEvents : on_redaction_start(1, e)
    \/ on_redaction_row(1)
    \/ on_redaction_commit(1)
    \/ \E sent \in BOOLEAN :
          on_redaction_dispatch(1, "absent", sent, IF sent THEN Emojis ELSE {})
    \/ worker_process_queue
    \/ confirm_command("@alice:srv", "mxc://srv/A")
    \/ \E ev \in ReactTargets, emoji \in Emojis :
          reaction_hook("@alice:srv", ev, emoji)

SpecAwait == InitAwait /\ [][NextAwait]_vars

\* Concurrent redactions: two tasks, two events that reference one media.
RaceEvents == {"$E1", "$E2"}

RaceRefLists == {<<Ref("mxc://srv/A", "content.url")>>}

NextRace ==
    \/ \E e \in RaceEvents, mxcs \in RaceRefLists : on_event_created(e, mxcs)
    \/ \E p \in Procs, e \in RaceEvents : on_redaction_start(p, e)
    \/ \E p \in Procs : on_redaction_row(p)
    \/ \E p \in Procs : on_redaction_commit(p)
    \/ \E p \in Procs : on_redaction_dispatch(p, "delete", FALSE, {})

SpecRace == Init /\ [][NextRace]_vars

\* One event redacted more than once: two tasks run on_redaction for $E1,
\* one after the other or interleaved, while $E2 keeps its reference; events
\* are created while no redaction is running.
TwiceEvents == {"$E1", "$E2"}

TwiceRefLists == {<<Ref("mxc://srv/A", "content.url")>>}

NextTwice ==
    \/ /\ \A p \in Procs : proc[p].pc = "idle"
       /\ \E e \in TwiceEvents, mxcs \in TwiceRefLists : on_event_created(e, mxcs)
    \/ \E p \in Procs : on_redaction_start(p, "$E1")
    \/ \E p \in Procs : on_redaction_row(p)
    \/ \E p \in Procs : on_redaction_commit(p)
    \/ \E p \in Procs : on_redaction_dispatch(p, "absent", TRUE, Emojis)

SpecTwice == Init /\ [][NextTwice]_vars

\* ------------------------------------------------------------ properties
\* the redaction task that takes the step
Acting(p) == proc'[p] # proc[p]

RedactionOps ==
    {"on_redaction_start", "on_redaction_row", "on_redaction_commit",
     "on_redaction_dispatch"}

\* the mer: rows of event e that record reference ref
MerRows(c, e, ref) ==
    {k \in DOMAIN c : /\ k[1] = "mer:"
                      /\ k[2] = e
                      /\ c[k].mxc = ref[1]
                      /\ c[k].kind = ref[3]}

\* C1: for every media identifier that has a MediaRef row, refcount equals
\* the references inserted minus the decrements applied, clamped at 0.
C1_RefcountArithmetic ==
    \A m \in Mxcs :
        Has(cf, key_mref(m)) => cf[key_mref(m)].refcount = Max(0, net[m])

\* C2: MediaRef.refcount is never negative, in any reachable state.
C2_RefcountNonNegative ==
    \A m \in Mxcs : Has(cf, key_mref(m)) => cf[key_mref(m)].refcount >= 0

\* C3: every (event, ref) tuple passed to on_event_created has exactly one
\* MediaEventRef row until on_redaction of the event completes, and no
\* MediaEventRef row of the event remains afterwards.
C3_Conservation ==
    \A e \in DOMAIN pdus :
        IF e \in redacted
        THEN {k \in DOMAIN cf : k[1] = "mer:" /\ k[2] = e} = {}
        ELSE \A i \in DOMAIN pdus[e].refs :
                 Cardinality(MerRows(cf, e, pdus[e].refs[i])) = 1

\* C4: concurrent refcount updates are never lost: once no decrement is in
\* flight, refcount equals the increments minus the decrements.
C4_NoLostUpdate ==
    (\A p \in Procs : proc[p].pc # "scan") =>
        \A m \in Mxcs :
            Has(cf, key_mref(m)) => cf[key_mref(m)].refcount = net[m]

\* C5: under AskSender or DeleteAlways a redaction creates a DeletionCandidate
\* for a media identifier only when the queue condition of the policy holds
\* for it after the decrement (AskSender: refcount reached 0; DeleteAlways:
\* the MediaRef is local), the fallback scan of the event JSON included.
C5_QueueOnlyWhenPolicyHolds ==
    [][\A p \in Procs :
          (/\ Acting(p)
           /\ last'.op = "on_redaction_dispatch"
           /\ last'.act # "Skip"
           /\ Has(cf', key_queue(last'.arg))
           /\ proc[p].policy # "Keep")
          => LET after == proc[p].after
                 kmref == key_mref(last'.arg)
             IN  /\ Has(after, kmref)
                 /\ proc[p].policy = "AskSender" => after[kmref].refcount = 0
                 /\ proc[p].policy = "DeleteAlways" => after[kmref].local]_vars

\* the qdel: rows as a function of their keys
QueueRows(c) == [k \in QueueKeys(c) |-> c[k]]

\* C6: under policy Keep no step of a redaction creates a DeletionCandidate,
\* sends a notification or a reaction, or deletes a blob, whatever the
\* auto-delete preferences of the sender are.
C6_KeepIsNoOp ==
    [][(from_str(cfg) = "Keep" /\ last'.op \in RedactionOps)
       => /\ QueueRows(cf') = QueueRows(cf)
          /\ userroom' = userroom
          /\ files' = files]_vars

\* a redaction under keep has looked at a candidate of an event whose sender
\* has the auto-delete flag set, and skipped it
C6_Witness ==
    /\ cfg = "keep"
    /\ last.op = "on_redaction_dispatch"
    /\ last.act = "Skip"
    /\ get_user_prefs(cf, "@alice:srv").auto_delete_unencrypted
    /\ \E e \in redacted : e \in DOMAIN pdus /\ pdus[e].sender = "@alice:srv"
    /\ QueueKeys(cf) = {}
    /\ userroom = <<>>

\* the policy the specification assigns to a configuration string
ConfiguredPolicy(s) ==
    CASE s \in {"ask_sender", "delete_if_unreferenced"} -> "AskSender"
      [] s \in {"delete_always", "force_delete_local"} -> "DeleteAlways"
      [] OTHER -> "Keep"

\* C7: the configuration string maps to its policy, each alias to the policy of
\* its canonical name: a redaction runs under the policy of the table.
C7_ConfigAliases ==
    \A p \in Procs : proc[p].pc # "idle" => proc[p].policy = ConfiguredPolicy(cfg)

\* C8: there is at most one qdel row per media identifier, and a step that
\* enqueues a media identifier leaves exactly its one candidate, stamped with
\* the time of that enqueue, also when a candidate was already there.
C8_SingleCandidate ==
    [][/\ \A m \in Mxcs :
              Cardinality({k \in QueueKeys(cf') : cf'[k].mxc = m}) <= 1
       /\ (last'.op = "on_redaction_dispatch" /\ last'.act # "Skip")
          => /\ QueueKeys(cf') = QueueKeys(cf) \cup {key_queue(last'.arg)}
             /\ cf'[key_queue(last'.arg)].enqueued_ts = now]_vars

\* a media identifier that had a candidate was enqueued again later: its one
\* candidate carries the later time
C8_Witness ==
    /\ last.op = "on_redaction_dispatch"
    /\ last.act # "Skip"
    /\ Has(cf, key_queue(last.arg))
    /\ \E t \in last.was : t < now /\ cf[key_queue(last.arg)].enqueued_ts = now

\* the rows and the blobs of candidate k are as they were before the step
Untouched(k) ==
    /\ Has(cf', k)
    /\ cf'[k] = cf[k]
    /\ Has(cf, key_mref(cf[k].mxc)) =>
           /\ Has(cf', key_mref(cf[k].mxc))
           /\ cf'[key_mref(cf[k].mxc)] = cf[key_mref(cf[k].mxc)]
    /\ \A f \in files : f[1] = cf[k].mxc => f \in files'

\* C9: a sweep of the worker leaves alone the rows and the blob of every
\* candidate whose enqueued_ts + grace_period is greater than the current time.
C9_GraceEnforced ==
    [][last'.op = "worker_process_queue"
       => \A k \in QueueKeys(cf) :
              cf[k].enqueued_ts + grace > now => Untouched(k)]_vars

\* a sweep has run over a confirmed candidate still within its grace period
C9_Witness ==
    /\ last.op = "worker_process_queue"
    /\ \E k \in QueueKeys(cf) :
           /\ ~cf[k].awaiting_confirmation
           /\ cf[k].enqueued_ts + grace > now
           /\ Has(cf, key_mref(cf[k].mxc))
           /\ get_media_file(cf[k].mxc) \in files

\* C10: a sweep of the worker leaves alone the rows and the blob of every
\* candidate that awaits confirmation, whatever its age and the grace period.
C10_AwaitingNeverReclaimed ==
    [][last'.op = "worker_process_queue"
       => \A k \in QueueKeys(cf) :
              cf[k].awaiting_confirmation => Untouched(k)]_vars

\* a sweep with grace period 0 has run over an older candidate that awaits
\* confirmation
C10_Witness ==
    /\ last.op = "worker_process_queue"
    /\ grace = 0
    /\ \E k \in QueueKeys(cf) :
           /\ cf[k].awaiting_confirmation
           /\ cf[k].enqueued_ts < now
           /\ Has(cf, key_mref(cf[k].mxc))
           /\ get_media_file(cf[k].mxc) \in files

\* the interactive operations, by command and by reaction
AskOps == {"confirm_command", "reaction_confirm", "reaction_cancel", "reaction_auto"}

\* the step is interactive operation `ops` on a media that has a candidate
Asked(ops) ==
    /\ last'.op \in ops
    /\ last'.arg # NoMxc
    /\ Has(cf, key_queue(last'.arg))

DeleteOps == {"confirm_command", "reaction_confirm", "reaction_auto"}

\* the step runs the delete subroutine: the requester owns the candidate and,
\* for a confirm, the candidate awaits confirmation
RunsDelete ==
    /\ Asked(DeleteOps)
    /\ cf[key_queue(last'.arg)].user_id = last'.by
    /\ last'.op = "reaction_auto" \/ cf[key_queue(last'.arg)].awaiting_confirmation

\* the sizes of the files behind a set of directory entries, summed
RECURSIVE SumLen(_)
SumLen(paths) ==
    IF paths = {} THEN 0
    ELSE LET p == CHOOSE x \in paths : TRUE
         IN  content_len(p[1]) + SumLen(paths \ {p})

C13_BothPathsRemoved ==
    [][RunsDelete
       => \A key \in search_mxc_metadata_prefix(last'.arg) :
              /\ get_media_file(key) \notin files'
              /\ get_media_file_b64(key) \notin files']_vars

\* ---- pending uploads
\* the consume_pending_uploads call p reads the stream in this step
Scans(p) == tasks[p].pc = "idle" /\ tasks'[p].pc = "write"

\* the pending rows of c that belong to user_id, carry media m and lie in the
\* window of an event at event_ts
WindowRows(c, user_id, event_ts, m) ==
    {k \in DOMAIN c :
        /\ k[1] = "pending:"
        /\ c[k].user_id = user_id
        /\ c[k].mxc = m
        /\ Max(0, event_ts - 60000) <= c[k].upload_ts
        /\ c[k].upload_ts <= event_ts}

\* C14: a consume_pending_uploads call for a user at event_ts returns, as
\* (mxc, true, "encrypted.media"), exactly the pending uploads of that user
\* with event_ts - 60000 <= upload_ts <= event_ts (lower bound saturating at
\* 0): every such upload once, nothing else, and no upload of another user.
C14_PendingWindow ==
    [][\A p \in Procs : Scans(p) =>
          LET t == tasks'[p]
          IN  /\ \A i \in DOMAIN t.found_mxcs :
                     /\ t.found_mxcs[i][2] = TRUE
                     /\ t.found_mxcs[i][3] = "encrypted.media"
              /\ \A m \in PendingMxcs :
                     RefCount(t.found_mxcs, m)
                       = Cardinality(WindowRows(cf, t.user_id, t.event_ts, m))]_vars

\* a call returned one upload of its user and left out one later than the
\* event and one of another user
C14_Witness ==
    \E p \in Procs :
        /\ tasks[p].pc = "write"
        /\ tasks[p].event_ts > 60000
        /\ Len(tasks[p].found_mxcs) = 1
        /\ \E k \in PendingKeys(cf, tasks[p].user_id) : cf[k].upload_ts > tasks[p].event_ts
        /\ \E u \in PendingUsers \ {tasks[p].user_id} : PendingKeys(cf, u) # {}

\* the places where finished consume_pending_uploads calls returned media m
ReturnedAt(m) ==
    {ij \in (DOMAIN returned) \X (1..Cardinality(PendingMxcs)) :
        /\ ij[2] \in DOMAIN returned[ij[1]].found_mxcs
        /\ returned[ij[1]].found_mxcs[ij[2]][1] = m}

\* C15: each pending upload is attributed to at most one event: over all the
\* consume_pending_uploads calls that have returned, interleaved ones
\* included, an upload is returned at most once.
C15_AttributedOnce ==
    \A m \in PendingMxcs : Cardinality(ReturnedAt(m)) <= 1

\* ---- notifications and reactions
\* the candidate cand points at notice i of the user rooms: the notice went to
\* the owner and each recorded reaction id is one of that notice's reactions
PointsAt(cand, i) ==
    /\ cand.notification_event_id = notice_event_id(i)
    /\ userroom[i].user = cand.user_id
    /\ cand.confirm_reaction_id \in {NoEvent, reaction_event_id(i, "confirm")}
    /\ cand.cancel_reaction_id \in {NoEvent, reaction_event_id(i, "cancel")}
    /\ cand.auto_reaction_id \in {NoEvent, reaction_event_id(i, "auto")}
    /\ \A emoji \in Emojis :
           (emoji \notin userroom[i].reacts) =>
               reaction_event_id(i, emoji) \notin
                   {cand.confirm_reaction_id, cand.cancel_reaction_id,
                    cand.auto_reaction_id}

\* C16: every candidate awaiting confirmation names, in notification_event_id,
\* a message the server sent to the owner's user room, and the reaction ids
\* it records are reactions to that message.
C16_ReactionConsistency ==
    \A k \in QueueKeys(cf) :
        cf[k].awaiting_confirmation =>
            /\ cf[k].notification_event_id # NoEvent
            /\ \E i \in DOMAIN userroom : PointsAt(cf[k], i)

\* ---- confirm, cancel, always-auto by the owner
ConfirmOps == {"confirm_command", "reaction_confirm"}

\* the step is operation `ops` by the recorded owner of the candidate
OwnerAsked(ops) ==
    /\ Asked(ops)
    /\ cf[key_queue(last'.arg)].user_id = last'.by

\* the media directory holds no file of media mxc
NoFiles(fs, mxc) ==
    \A key \in search_mxc_metadata_prefix(mxc) :
        get_media_file(key) \notin fs /\ get_media_file_b64(key) \notin fs

\* C17: a confirm (reaction or command) by the owner of a candidate that
\* awaits confirmation removes the blob files of the media and the qdel: and
\* mref: rows, and redacts the recorded cancel reaction and no other.
C17_ConfirmEffect ==
    [][(OwnerAsked(ConfirmOps) /\ cf[key_queue(last'.arg)].awaiting_confirmation)
       => LET cand == cf[key_queue(last'.arg)]
          IN  /\ last'.act = "Ok"
              /\ NoFiles(files', cand.mxc)
              /\ ~Has(cf', key_queue(cand.mxc))
              /\ ~Has(cf', key_mref(cand.mxc))
              /\ redactions' = redactions \cup Recorded({cand.cancel_reaction_id})
              /\ cand.confirm_reaction_id \notin redactions' \ redactions
              /\ cand.auto_reaction_id \notin redactions' \ redactions]_vars

\* C18: a cancel by the owner of a candidate removes the qdel: row of the
\* media and nothing else from the column family (mref:, mer: and prefs: rows
\* stay as they were), leaves the media directory alone, reports no freed
\* bytes, and redacts the recorded confirm reaction and no other.
C18_CancelFrame ==
    [][OwnerAsked({"reaction_cancel"})
       => LET cand == cf[key_queue(last'.arg)]
          IN  /\ last'.act = "Ok"
              /\ last'.bytes = 0
              /\ cf' = Del(cf, key_queue(cand.mxc))
              /\ files' = files
              /\ texts' = texts
              /\ redactions' = redactions \cup Recorded({cand.confirm_reaction_id})]_vars

\* the owner has cancelled: the candidate is gone, the recorded confirm
\* reaction is redacted, and the blob, the mref: row, a mer: row and the
\* owner's preferences are still there
C18_Witness ==
    /\ last.op = "reaction_cancel"
    /\ last.act = "Ok"
    /\ last.by = "@alice:srv"
    /\ ~Has(cf, key_queue(last.arg))
    /\ Has(cf, key_mref(last.arg))
    /\ Has(cf, key_prefs("@alice:srv"))
    /\ \E k \in DOMAIN cf : k[1] = "mer:"
    /\ get_media_file(last.arg) \in files
    /\ redactions # {}

\* C19: always-auto by the owner of a candidate sets the auto-delete flag that
\* matches candidate.from_encrypted_room and keeps the other flag, removes
\* the blob files and the qdel: and mref: rows of the media, redacts the
\* recorded confirm and cancel reactions, and sends the owner a text naming
\* the command that disables the flag just set.
C19_AutoEffect ==
    [][OwnerAsked({"reaction_auto"})
       => LET cand == cf[key_queue(last'.arg)]
              old == get_user_prefs(cf, last'.by)
              new == get_user_prefs(cf', last'.by)
          IN  /\ last'.act = "Ok"
              /\ IF cand.from_encrypted_room
                 THEN /\ new.auto_delete_encrypted
                      /\ new.auto_delete_unencrypted = old.auto_delete_unencrypted
                      /\ texts' = texts \cup {<<last'.by, "prefs-encrypted-off">>}
                 ELSE /\ new.auto_delete_unencrypted
                      /\ new.auto_delete_encrypted = old.auto_delete_encrypted
                      /\ texts' = texts \cup {<<last'.by, "prefs-unencrypted-off">>}
              /\ NoFiles(files', cand.mxc)
              /\ ~Has(cf', key_queue(cand.mxc))
              /\ ~Has(cf', key_mref(cand.mxc))
              /\ redactions' = redactions \cup
                     Recorded({cand.confirm_reaction_id, cand.cancel_reaction_id})]_vars

\* ---- repeated operations
\* the last step was a successful `ops` on a media
Succeeded(ops) == last.op \in ops /\ last.act = "Ok" /\ last.arg # NoMxc

\* the step is the confirm command for the media and by the requester of the
\* step before
SameConfirmAgain ==
    /\ last'.op = "confirm_command"
    /\ last'.arg = last.arg
    /\ last'.by = last.by

\* C20: a second confirm of a media by its owner after a successful confirm
\* returns "already processed" (InvalidParam), a second cancel after a
\* successful cancel returns NotFound; the second call changes no state and
\* reports no freed bytes.
C20_RepeatSafe ==
    [][/\ (Succeeded(ConfirmOps) /\ SameConfirmAgain)
            => /\ last'.act = "InvalidParam"
               /\ last'.bytes = 0
               /\ cf' = cf /\ files' = files
               /\ redactions' = redactions /\ texts' = texts
       /\ Succeeded({"reaction_cancel"})
            => cancel_candidate(cf, files, last.arg, last.by)
                   = Failed(cf, files, "NotFound")]_vars

\* ---- candidates that do not await confirmation
\* the candidates of the queue that do not await confirmation and have a
\* local owner
SettledKeys == {k \in QueueKeys(cf) : ~cf[k].awaiting_confirmation /\ user_is_local(cf[k].user_id)}

\* C21: confirm, cancel and always-auto by the owner on a candidate whose
\* awaiting_confirmation flag is false fail with InvalidParam ("already
\* processed") and leave the qdel: row, the mref: row, the blob and the
\* preferences as they are.
C21_NotAwaitingRejected ==
    \A k \in SettledKeys :
        LET same == Failed(cf, files, "InvalidParam")
        IN  /\ confirm_candidate(cf, files, cf[k].mxc, cf[k].user_id) = same
            /\ cancel_candidate(cf, files, cf[k].mxc, cf[k].user_id) = same
            /\ auto_delete_candidate(cf, files, cf[k].mxc, cf[k].user_id) = same

\* ---- auto-delete preferences in on_redaction
\* the step dispatches a candidate on the auto-delete path
AutoDispatched == last'.op = "on_redaction_dispatch" /\ last'.act = "auto"

\* C22: a candidate whose sender has the auto-delete flag matching
\* from_encrypted_room set is not evaluated and not notified, and the delete
\* subroutine runs for it at once: after its dispatch the blob and the mref:
\* row of the media are gone, whatever the grace period.
C22_AutoDeletesAtOnce ==
    [][AutoDispatched
       => /\ userroom' = userroom
          /\ get_media_file(last'.arg) \notin files'
          /\ ~Has(cf', key_mref(last'.arg))]_vars

\* ---- preferences
PrefsValues == [auto_delete_unencrypted : BOOLEAN, auto_delete_encrypted : BOOLEAN]

S1Done(s) ==
    /\ cfg = s
    /\ grace = 0
    /\ DOMAIN pdus = {"$E1"}
    /\ pdus["$E1"].refs = <<Ref("mxc://srv/A", "content.url")>>
    /\ redacted = {"$E1"}
    /\ ~Has(cf, key_mer("$E1", "content.url"))
    /\ proc[1].pc = "idle"
    /\ ~Has(cf, key_prefs("@alice:srv"))

\* the outcome scenario S1 expects: a candidate for A that awaits alice's
\* confirmation, a notice with three reactions in her user room, the blob kept
S1Expected ==
    /\ Has(cf, key_queue("mxc://srv/A"))
    /\ cf[key_queue("mxc://srv/A")].awaiting_confirmation
    /\ cf[key_queue("mxc://srv/A")].user_id = "@alice:srv"
    /\ \E i \in DOMAIN userroom :
           /\ userroom[i].user = "@alice:srv"
           /\ userroom[i].mxc = "mxc://srv/A"
           /\ userroom[i].reacts = Emojis
    /\ get_media_file("mxc://srv/A") \in files

\* C24: scenario S1 under policy delete_if_unreferenced ends, and stays after
\* any number of worker sweeps, with the candidate awaiting confirmation, the
\* notice sent and the blob present.
C24_ScenarioS1 == S1Done("delete_if_unreferenced") => S1Expected

\* the consume_pending_uploads call p writes its batch and returns in this step
Returns(p) == tasks[p].pc = "write" /\ tasks'[p].pc = "idle"

\* the upload of scenario S5: alice's media, tracked at 1000 ms, is her only
\* pending row
S5Pending(c) ==
    /\ PendingKeys(c, "@alice:srv") = {key_pending("@alice:srv", 1000)}
    /\ c[key_pending("@alice:srv", 1000)].mxc = "mxc://srv/A"

S5Found == <<<<"mxc://srv/A", TRUE, "encrypted.media">>>>

\* C25: scenario S5. A consume at event_ts 5000 of the upload tracked at
\* 1000 ms returns exactly [(media, true, "encrypted.media")] and removes the
\* pending row; on_event_created($E3) with that list gives the media refcount
\* 1; redacting the encrypted event $E3 under ask_sender makes the media a
\* candidate with from_encrypted_room = true, enqueued with that flag; and a
\* notice carries the encryption warning exactly when the candidate's
\* from_encrypted_room is true.
C25_ScenarioS5 ==
    [][/\ (Scans(1) /\ tasks'[1].event_ts = 5000 /\ S5Pending(cf))
            => tasks'[1].found_mxcs = S5Found
       /\ (Returns(1) /\ tasks[1].found_mxcs = S5Found)
            => /\ PendingKeys(cf', "@alice:srv") \cap PendingKeys(cf, "@alice:srv")
                      \subseteq {key_pending("@alice:srv", 70000)}
               /\ returned'[Len(returned')].found_mxcs = S5Found
       /\ (last'.op = "on_event_created" /\ last'.arg = "$E3"
               /\ pdus'["$E3"].refs = S5Found
               /\ ~Has(cf, key_mref("mxc://srv/A")))
            => cf'[key_mref("mxc://srv/A")].refcount = 1
       /\ (last'.op = "on_redaction_commit" /\ last'.arg = "$E3"
               /\ proc[1].policy = "AskSender" /\ proc[1].puts # <<>>
               /\ proc[1].puts[1][2].refcount = 0)
            => /\ Len(proc'[1].candidates) = 1
               /\ proc'[1].candidates[1].mxc = "mxc://srv/A"
               /\ proc'[1].candidates[1].from_encrypted_room
       /\ (last'.op = "on_redaction_dispatch" /\ last'.act # "Skip")
            => /\ cf'[key_queue(last'.arg)].from_encrypted_room
                      = (proc[1].event_id = "$E3")
               /\ userroom' # userroom
                      => userroom'[Len(userroom')].warning
                             = cf'[key_queue(last'.arg)].from_encrypted_room]_vars

\* scenario S5 has run: the consume call returned the upload, its row is gone,
\* and the redaction of $E3 enqueued the media as coming from an encrypted
\* room, with a notice that carries the warning
C25_Witness ==
    /\ Len(returned) = 1
    /\ returned[1].found_mxcs = S5Found
    /\ PendingKeys(cf, "@alice:srv") = {}
    /\ last.op = "on_redaction_dispatch"
    /\ last.act = "AwaitConfirmation"
    /\ redacted = {"$E3"}
    /\ cf[key_queue("mxc://srv/A")].from_encrypted_room
    /\ cf[key_queue("mxc://srv/A")].awaiting_confirmation
    /\ Len(userroom) = 1
    /\ userroom[1].warning

\* ---- reclamation
\* media m has a candidate that does not await confirmation, enqueued at t
Reclaimable(m, t) ==
    /\ Has(cf, key_queue(m))
    /\ ~cf[key_queue(m)].awaiting_confirmation
    /\ cf[key_queue(m)].enqueued_ts = t

\* the candidates a sweep finds due: not awaiting, grace period over
Due == {k \in QueueKeys(cf) :
           ~cf[k].awaiting_confirmation /\ now - cf[k].enqueued_ts >= grace}

Range(q) == {q[i] : i \in DOMAIN q}

\* the positions of the first input whose element occurs in every other input
Kept(input) ==
    {i \in DOMAIN input[1] :
        \A k \in DOMAIN input : k > 1 => input[1][i] \in Range(input[k])}

\* out lists the elements of q at the positions in keep, in the order of q
ListsPositions(out, q, keep) ==
    /\ Len(out) = Cardinality(keep)
    /\ \A i \in keep :
           out[Cardinality({j \in keep : j <= i})] = q[i]

\* C27: intersection yields the elements of the first input that occur in
\* every other input, in the order of the first input, and nothing when there
\* is no input or an input is empty; intersection_sorted_stream2 on two
\* sorted streams yields, in order, exactly the elements common to both, and
\* the same result with the streams swapped.
C27_Intersections ==
    /\ (call.op = "intersection" /\ call.done)
         => /\ call.input = <<>> => call.out = <<>>
            /\ (\E k \in DOMAIN call.input : call.input[k] = <<>>)
                   => call.out = <<>>
            /\ call.input # <<>>
                   => ListsPositions(call.out, call.input[1], Kept(call.input))
    /\ (call.op = "intersection_sorted_stream2" /\ call.done)
         => /\ Range(call.out) = Range(call.input[1]) \cap Range(call.input[2])
            /\ IsSorted(call.out)
            /\ call.out = intersection_sorted_stream2(call.input[2], call.input[1])

\* an intersection of three inputs has kept two elements of the first, in its
\* order and not in the order of the others, and dropped a third
C27_Witness ==
    /\ call.op = "intersection"
    /\ call.done
    /\ Len(call.input) = 3
    /\ call.input[1] = <<3, 1>>
    /\ call.input[2] = <<1, 3>>
    /\ call.out = <<3, 1>>
    /\ Range(call.input[3]) = {1, 3}

\* ---- duplicates within one event
\* the stored refcount of media m in column family c, 0 when it has no MediaRef
StoredRefcount(c, m) == IF Has(c, key_mref(m)) THEN c[key_mref(m)].refcount ELSE 0

\* the media that a refs list names twice, under two different reference kinds
ListedTwice(mxcs) ==
    {m \in Mxcs : \E i, j \in DOMAIN mxcs :
        /\ mxcs[i][1] = m
        /\ mxcs[j][1] = m
        /\ mxcs[i][3] # mxcs[j][3]
        /\ RefCount(mxcs, m) = 2}

\* C28: an on_event_created call that lists media M twice under two different
\* kinds leaves MediaRef(M).refcount 2 higher than before (2 if M was new),
\* and the redaction of that event brings the refcount back down by 2.
C28_DuplicateCountsTwice ==
    [][/\ last'.op = "on_event_created"
          => \A m \in Mxcs :
                 m \in ListedTwice(pdus'[last'.arg].refs)
                     => StoredRefcount(cf', m) = StoredRefcount(cf, m) + 2
       /\ (last'.op = "on_redaction_commit" /\ last'.arg \in DOMAIN pdus)
          => \A m \in ListedTwice(pdus[last'.arg].refs) :
                 (PutCount(proc[1].puts, m) = 2 /\ StoredRefcount(cf, m) >= 2)
                     => StoredRefcount(cf', m) = StoredRefcount(cf, m) - 2]_vars

\* ---- candidates of a redaction
\* the redaction task that processed a mer: row in this step
RowTaken(p) ==
    /\ proc[p].pc = "scan"
    /\ proc[p].rows # <<>>
    /\ proc'[p].rows = Tail(proc[p].rows)

\* what the claim lets a row of media m add to the candidates, from the
\* MediaRef stored when the row is processed
CandidateDue(policy, m) ==
    /\ Has(cf, key_mref(m))
    /\ policy # "Keep"
    /\ policy = "AskSender" => cf[key_mref(m)].refcount - 1 = 0
    /\ policy = "DeleteAlways" => cf[key_mref(m)].local

\* C29: the decrement returns the media of a MediaEventRef row of the event as
\* a candidate never under Keep, under AskSender exactly when the refcount
\* after the decrement is 0, under DeleteAlways exactly when MediaRef.local is
\* true whatever the refcount; a row whose MediaRef is absent yields no
\* candidate; the refcount and MediaEventRef rows written do not depend on the
\* policy.
C29_CandidateRule ==
    [][last'.op = "on_redaction_row"
          => \A p \in Procs : RowTaken(p) =>
                LET row == Head(proc[p].rows)
                    m == row[2].mxc
                    acc == [puts |-> proc[p].puts, dels |-> proc[p].dels,
                            to_delete |-> proc[p].to_delete]
                IN  /\ IF CandidateDue(proc[p].policy, m)
                       THEN /\ Len(proc'[p].to_delete) = Len(proc[p].to_delete) + 1
                            /\ proc'[p].to_delete[Len(proc'[p].to_delete)].mxc = m
                            /\ SubSeq(proc'[p].to_delete, 1, Len(proc[p].to_delete))
                                   = proc[p].to_delete
                       ELSE proc'[p].to_delete = proc[p].to_delete
                    /\ \A other \in PolicyNames :
                           /\ decrement_row(cf, other, row, acc).puts = proc'[p].puts
                           /\ decrement_row(cf, other, row, acc).dels = proc'[p].dels
                    /\ proc'[p].dels = Append(proc[p].dels, row[1])
                    /\ Has(cf, key_mref(m))
                           => /\ Len(proc'[p].puts) = Len(proc[p].puts) + 1
                              /\ proc'[p].puts[Len(proc'[p].puts)][2].refcount
                                     = cf[key_mref(m)].refcount - 1
                    /\ ~Has(cf, key_mref(m)) => proc'[p].puts = proc[p].puts]_vars

\* under DeleteAlways a row of local media has become a candidate although
\* its refcount after the decrement is above 0
C29_Witness ==
    /\ last.op = "on_redaction_row"
    /\ proc[1].policy = "DeleteAlways"
    /\ proc[1].to_delete # <<>>
    /\ \E i \in DOMAIN proc[1].puts :
           /\ proc[1].puts[i][1] = key_mref(proc[1].to_delete[1].mxc)
           /\ proc[1].puts[i][2].refcount > 0

\* a row whose MediaRef is absent has been processed: no put, no candidate
C29_AbsentWitness ==
    /\ last.op = "on_redaction_row"
    /\ proc[1].dels # <<>>
    /\ proc[1].puts = <<>>
    /\ proc[1].to_delete = <<>>

\* ---- the candidate evaluator
\* the users an evaluator call can resolve the owner from
OwnerSources(input) ==
    ({input.candidate.sender, get_media_owner(input.candidate.mxc)}
        \cup (IF input.event_value.known THEN {input.event_value.sender} ELSE {}))
    \ {NoUser, BadUserId}

\* the owner's effective preference: the stored one, Ask when none is stored
EffectivePreference(acc) ==
    CASE acc \in {"delete", "auto"} -> "Delete"
      [] acc = "keep" -> "Keep"
      [] OTHER -> "Ask"

OwnerPriority(input) ==
    <<IF input.candidate.sender \in Users THEN input.candidate.sender ELSE NoUser,
      get_media_owner(input.candidate.mxc),
      IF input.event_value.known /\ input.event_value.sender \in Users
      THEN input.event_value.sender ELSE NoUser>>

\* C31: the evaluator takes the owner from candidate.sender if present and a
\* valid user id, else from the recorded uploader of the media, else from the
\* sender of the event JSON, else there is no owner; a lower-priority source
\* is never used when a higher-priority one yields an owner.
C31_OwnerPriority ==
    (/\ call.op = "evaluate_retention_candidate"
     /\ call.done
     /\ call.input.policy # "Keep") =>
        LET src == OwnerPriority(call.input)
        IN  /\ \A i \in 1..3 :
                   (src[i] # NoUser /\ \A j \in 1..(i - 1) : src[j] = NoUser)
                       => call.out.owner = src[i]
            /\ (\A i \in 1..3 : src[i] = NoUser) => call.out.owner = NoUser

\* all three sources yield a different answer from the one above: the
\* candidate's sender is remote, the uploader and the event's sender local
C31_Witness ==
    /\ call.op = "evaluate_retention_candidate"
    /\ call.done
    /\ call.input.policy = "AskSender"
    /\ call.input.candidate.sender = "@bob:other"
    /\ get_media_owner(call.input.candidate.mxc) = "@alice:srv"
    /\ call.input.event_value.sender = "@alice:srv"
    /\ call.out.owner = "@bob:other"

\* a malformed candidate.sender is passed over for the event's sender
C31_MalformedWitness ==
    /\ call.op = "evaluate_retention_candidate"
    /\ call.done
    /\ call.input.policy = "AskSender"
    /\ call.input.candidate.sender = BadUserId
    /\ get_media_owner(call.input.candidate.mxc) = NoUser
    /\ call.out.owner = "@bob:other"

\* ---- failed reactions
ReactionOps == {"reaction_confirm", "reaction_cancel", "reaction_auto"}

\* the candidates that await confirmation by user u and record a notice
NoticedKeys(c, u) ==
    {k \in QueueKeys(c) : /\ c[k].awaiting_confirmation
                          /\ c[k].notification_event_id \in ReactTargets
                          /\ c[k].user_id = u}

\* the reaction id a candidate must record for emoji under notice n
RecordedId(n, emoji) ==
    IF emoji \in userroom'[n].reacts THEN reaction_event_id(n, emoji) ELSE NoEvent

\* the step sent a notice for the candidate it enqueued
NoticeSent ==
    /\ last'.op = "on_redaction_dispatch"
    /\ Len(userroom') = Len(userroom) + 1

\* C32: whichever of the three add_reaction calls fail after the notice was
\* sent, the candidate is inserted awaiting confirmation with the notice's
\* event id and exactly the successful reaction ids, and a later confirm,
\* cancel or always-auto reaction of the owner on the notice has its full
\* effect, only the redaction of a reaction that was never recorded is skipped.
C32_ReactionFailuresTolerated ==
    [][/\ NoticeSent =>
            LET n == Len(userroom')
                cand == cf'[key_queue(last'.arg)]
            IN  /\ Has(cf', key_queue(last'.arg))
                /\ cand.awaiting_confirmation
                /\ cand.notification_event_id = notice_event_id(n)
                /\ cand.confirm_reaction_id = RecordedId(n, "confirm")
                /\ cand.cancel_reaction_id = RecordedId(n, "cancel")
                /\ cand.auto_reaction_id = RecordedId(n, "auto")
       /\ last'.op \in ReactionOps =>
            \A k \in NoticedKeys(cf, last'.by) :
                LET cand == cf[k]
                    m == cand.mxc
                IN  /\ last'.arg = m
                    /\ last'.act = "Ok"
                    /\ ~Has(cf', k)
                    /\ last'.op = "reaction_confirm" =>
                          /\ NoFiles(files', m)
                          /\ ~Has(cf', key_mref(m))
                          /\ redactions' = redactions
                                \cup Recorded({cand.cancel_reaction_id})
                    /\ last'.op = "reaction_cancel" =>
                          /\ files' = files
                          /\ Has(cf, key_mref(m)) => Has(cf', key_mref(m))
                          /\ redactions' = redactions
                                \cup Recorded({cand.confirm_reaction_id})
                    /\ last'.op = "reaction_auto" =>
                          /\ NoFiles(files', m)
                          /\ ~Has(cf', key_mref(m))
                          /\ IF cand.from_encrypted_room
                             THEN get_user_prefs(cf', last'.by).auto_delete_encrypted
                             ELSE get_user_prefs(cf', last'.by).auto_delete_unencrypted
                          /\ redactions' = redactions
                                \cup Recorded({cand.confirm_reaction_id,
                                               cand.cancel_reaction_id})]_vars

\* ---- the worker against an interactive operation
AskResults == {"confirm_command", "reaction_confirm", "reaction_cancel",
               "reaction_auto", "ask_confirm", "ask_cancel", "ask_auto"}

\* the step is a sweep of the worker
Swept == last'.op = "worker_process_queue"

\* the worker and an operation in flight never both act on a candidate, the
\* bytes of a blob are reported by the one that removes it, a cancel that
\* wins keeps the blob, and the operation that ends removes the qdel: row
SweepRaceEffects ==
    /\ (Swept /\ ask.pc # "idle") => ask.mxc \notin sweep_targets(cf, now, grace)
    /\ Swept => \A m \in sweep_targets(cf, now, grace) :
                    /\ ~Has(cf', key_queue(m))
                    /\ deleted_bytes(files, m) > 0
                          => /\ get_media_file(m) \in files
                             /\ get_media_file(m) \notin files'
    /\ last'.op = "ask_delete"
          => /\ Has(cf, key_queue(ask.mxc))
             /\ ask'.bytes > 0 => /\ get_media_file(ask.mxc) \in files
                                  /\ get_media_file(ask.mxc) \notin files'
    /\ last'.op \in {"ask_confirm", "ask_cancel", "ask_auto"}
          => /\ Has(cf, key_queue(ask.mxc))
             /\ ~Has(cf', key_queue(ask.mxc))
             /\ last'.bytes = ask.bytes
    /\ last'.op = "ask_cancel"
          => /\ files' = files
             /\ last'.bytes = 0

AwaitingLocal(c) ==
    {k \in QueueKeys(c) : c[k].awaiting_confirmation /\ user_is_local(c[k].user_id)}

\* the step is a confirm, cancel or always-auto of user u on media m
OwnerActed(u, m) ==
    /\ last'.op \in AskResults \cup {"ask_begin", "ask_prefs", "ask_delete"}
    /\ last'.by = u
    /\ last'.arg = m

\* C38: once a candidate for M awaits the confirmation of local owner U, the
\* blob of M is not deleted until U confirms: no redaction of another event
\* that references M replaces the awaiting candidate by one that does not
\* await confirmation, and no step but an operation of U removes it or
\* touches the blob.
C38_AwaitingIsKept ==
    [][\A k \in AwaitingLocal(cf) :
           OwnerActed(cf[k].user_id, cf[k].mxc)
           \/ /\ Has(cf', k)
              /\ cf'[k].awaiting_confirmation
              /\ cf'[k].user_id = cf[k].user_id
              /\ (get_media_file(cf[k].mxc) \in files
                     => get_media_file(cf[k].mxc) \in files')]_vars

\* ---- a candidate the worker cannot reclaim
\* the reclaim of candidate cand fails in this step: its media identifier
\* does not parse, or its blob is there and is not removed
ReclaimFails(cand) ==
    \/ ~mxc_parses(cand.mxc)
    \/ /\ get_media_file(cand.mxc) \in files
       /\ get_media_file(cand.mxc) \in files'

C34_KeepsSweeping == []<>(last.op = "worker_process_queue")

\* ---- the cleanup of pending uploads
\* the pending rows a step removes
RowsRemoved == {k \in DOMAIN cf \ DOMAIN cf' : k[1] = "pending:"}

\* the media a consume_pending_uploads call found
FoundMxcs(t) == {t.found_mxcs[i][1] : i \in DOMAIN t.found_mxcs}

\* C35: the cleanup task spawned by track_pending_upload at time T deletes
\* only pending rows of that user with upload_ts < T - 60000, no row of
\* another user, and in every interleaving of cleanup tasks, uploads and
\* consume_pending_uploads calls a pending row inside the window of a call
\* that was not consumed before is returned by that call.
C35_CleanupIsSafe ==
    [][/\ last'.op = "cleanup_write"
            => \A s \in sweeps \ sweeps' : \A k \in RowsRemoved :
                   /\ cf[k].user_id = s.user_id
                   /\ cf[k].upload_ts < s.cutoff
       /\ \A p \in Procs : Scans(p) =>
             \A r \in live :
                 (/\ r.user_id = tasks'[p].user_id
                  /\ in_window(r.upload_ts, tasks'[p].event_ts))
                    => r.mxc \in FoundMxcs(tasks'[p])]_vars

\* ---- media that a live event references
\* C36: under policy AskSender the blob and the MediaRef row of a media
\* identifier are never deleted, by the worker, a confirm or an always-auto,
\* in a state where its MediaRef has refcount >= 1: a candidate enqueued
\* before a new event referenced the media does not lead to its deletion.
C36_ReferencedIsKept ==
    [][from_str(cfg) = "AskSender"
          => \A m \in Mxcs :
                (/\ Has(cf, key_mref(m))
                 /\ cf[key_mref(m)].refcount >= 1)
                   => /\ Has(cf', key_mref(m))
                      /\ get_media_file(m) \in files
                            => get_media_file(m) \in files']_vars

\* ---- one decrement for each mer: row
\* the mer: rows of media m that a step removes
MerRowsRemoved(m) ==
    {k \in DOMAIN cf \ DOMAIN cf' : k[1] = "mer:" /\ cf[k].mxc = m}

\* C37: each MediaEventRef row causes exactly one decrement of the refcount
\* of its media: the write of an on_redaction call lowers the refcount of
\* every media by the number of mer: rows of the event it removes, so that a
\* second call after the first changes nothing and two interleaved calls for
\* one event lower it by the number of rows, not by twice that number.
C37_OneDecrementPerRow ==
    [][\A p \in Procs :
          (Acting(p) /\ last'.op = "on_redaction_commit")
             => \A m \in Mxcs :
                   StoredRefcount(cf, m) - StoredRefcount(cf', m)
                      = Cardinality(MerRowsRemoved(m))]_vars

\* ---- always-auto that fails
\* C39: an always-auto that returns an error (owner check, candidate not
\* found, the delete subroutine failing on a malformed media identifier)
\* leaves the preferences of every user unchanged: the auto-delete flag is
\* only ever set when the media was deleted and the candidate removed.
C39_AutoErrorKeepsPrefs ==
    [][last'.op = "reaction_auto"
          => /\ last'.act # "Ok"
                   => \A u \in Users : get_user_prefs(cf', u) = get_user_prefs(cf, u)
             /\ get_user_prefs(cf', last'.by) # get_user_prefs(cf, last'.by)
                   => /\ last'.act = "Ok"
                      /\ ~Has(cf', key_queue(last'.arg))
                      /\ get_media_file(last'.arg) \notin files']_vars

\* ---- one pending row for each upload
\* the pending: rows of c
PendingRows(c) == {k \in DOMAIN c : k[1] = "pending:"}

\* C40: every track_pending_upload call produces its own PendingUpload row,
\* two calls of one user in the same millisecond included: the call adds a
\* row and leaves the rows there in place, and a consume_pending_uploads call
\* whose window covers all the uploads of the user made so far, none of them
\* consumed before, returns the media identifiers of all of them.
C40_OwnRowPerUpload ==
    [][/\ last'.op = "track_pending_upload"
            => /\ \A k \in PendingRows(cf) : Has(cf', k) /\ cf'[k] = cf[k]
               /\ Cardinality(PendingRows(cf')) = Cardinality(PendingRows(cf)) + 1
       /\ \A p \in Procs :
             (/\ Scans(p)
              /\ returned = <<>>
              /\ tasks'[p].event_ts = clock
              /\ clock < window_ms)
                => FoundMxcs(tasks'[p])
                     = {m \in uploaded : <<tasks'[p].user_id, m>> \in CleanUploads}]_vars

====
